---- MODULE Spec2Model ----
(***************************************************************************)
(* License-Guardian: the license lifecycle and activation engine.          *)
(*                                                                         *)
(* The model follows server/license-service.ts (token codec), the route    *)
(* handlers of server/routes.ts and the DatabaseStorage class of           *)
(* server/storage.ts.  Every handler is split at its awaits: one action    *)
(* per storage round trip, so that request workers interleave exactly      *)
(* where the Node event loop lets them.                                    *)
(***************************************************************************)
EXTENDS Integers, Sequences, FiniteSets, TLC

(***************************************************************************)
(* Bounds of the model.                                                    *)
(***************************************************************************)
MaxTime == 1          \* the clock runs over 0..MaxTime
MaxRequests == 2      \* requests started under Spec (concurrent workers)
MaxSeqRequests == 3   \* requests started under SpecSeq (one worker)
MaxLicenses == 2      \* rows of the licenses table
MaxQuota == 2         \* largest maxActivations a license is given
TicksPerDay == 3      \* clock ticks between two local midnights

WorkerOrder == <<"w1", "w2">>
Workers == {WorkerOrder[i] : i \in 1..Len(WorkerOrder)}
SeqWorkers == {WorkerOrder[1]}
HardwareOrder == <<"hw-1", "hw-2", "hw-3">>
HardwareIds == {HardwareOrder[i] : i \in 1..Len(HardwareOrder)}
TenantIds == {"acme"}
ModuleSets == {{"CUSTOM_PORTAL"}}
Creators == {"alice"}
Expiries == 0..MaxTime
ExtendExpiries == (0 - 1)..MaxTime

LICENSE_SIGNING_SECRET == "server-secret"
OtherSecret == "other-secret"

(***************************************************************************)
(* Token codec (license-service.ts).  A token is the signed payload; the   *)
(* jsonwebtoken library adds the issue time iat to the signed claims, and  *)
(* HS256 is deterministic, so a token is a function of (payload, iat,      *)
(* key).  form distinguishes a well-formed JWT from an unparsable string.  *)
(***************************************************************************)
NoPayload == [tenantId |-> "", modules |-> {}, expiry |-> 0]

NoToken == [form |-> "none", payload |-> NoPayload, iat |-> 0, key |-> ""]

GarbageToken == [form |-> "garbage", payload |-> NoPayload, iat |-> 0, key |-> ""]

\* a signer that leaves the modules out of the signed claims
generateLicenseKey_NoModules(payload, secret, t) ==
    [form |-> "jwt", payload |-> [payload EXCEPT !.modules = {}],
     iat |-> t, key |-> secret]

generateLicenseKey(payload, secret, t) ==
    [form |-> "jwt", payload |-> payload, iat |-> t, key |-> secret]

NoVerify == [valid |-> FALSE, reason |-> "", payload |-> NoPayload]

(***************************************************************************)
(* jwt.verify of the jsonwebtoken library, as verifyLicenseKey calls it    *)
(* (HS256 only, a non-empty secret).  It throws, in this order: for the    *)
(* empty string, for a string that has not three dot-separated parts, for  *)
(* a header or payload that does not decode, for an empty signature part,  *)
(* and for a signature that is not the HMAC of header.payload under the    *)
(* secret.  form is the shape of the token string; key is the key its      *)
(* signature part was made with, over the header and payload it was        *)
(* issued with.                                                            *)
(***************************************************************************)
NoError == [name |-> "", message |-> ""]

JsonWebTokenError(message) == [name |-> "JsonWebTokenError", message |-> message]

SignatureMatches(token, secret) ==
    token.form = "jwt" /\ token.key = secret

jwtVerifyError(token, secret) ==
    IF token.form = "none" THEN JsonWebTokenError("jwt must be provided")
    ELSE IF token.form \in {"garbage", "one-part", "two-parts"}
    THEN JsonWebTokenError("jwt malformed")
    ELSE IF token.form = "bad-payload"
    THEN [name |-> "SyntaxError", message |-> "Unexpected token"]
    ELSE IF token.form = "no-signature"
    THEN JsonWebTokenError("jwt signature is required")
    ELSE IF ~SignatureMatches(token, secret)
    THEN JsonWebTokenError("invalid signature")
    ELSE NoError

\* a verifier that reads the expiry before it checks the signature
verifyLicenseKey_ExpiryFirst(token, secret, t) ==
    LET error == jwtVerifyError(token, secret)
    IN IF token.form = "jwt" /\ token.payload.expiry < t
       THEN [valid |-> FALSE, reason |-> "EXPIRED", payload |-> token.payload]
       ELSE IF error = NoError
       THEN [valid |-> TRUE, reason |-> "OK", payload |-> token.payload]
       ELSE IF error = JsonWebTokenError("invalid signature")
       THEN [valid |-> FALSE, reason |-> "INVALID_SIGNATURE", payload |-> NoPayload]
       ELSE [valid |-> FALSE, reason |-> "MALFORMED", payload |-> NoPayload]

\* a verifier whose catch reports every library error as MALFORMED
verifyLicenseKey_AllMalformed(token, secret, t) ==
    IF jwtVerifyError(token, secret) # NoError
    THEN [valid |-> FALSE, reason |-> "MALFORMED", payload |-> NoPayload]
    ELSE IF token.payload.expiry < t
    THEN [valid |-> FALSE, reason |-> "EXPIRED", payload |-> token.payload]
    ELSE [valid |-> TRUE, reason |-> "OK", payload |-> token.payload]

\* a verifier whose catch handles JsonWebTokenError only and lets every
\* other exception escape to the caller
verifyLicenseKey_Rethrows(token, secret, t) ==
    LET error == jwtVerifyError(token, secret)
    IN IF error = NoError
       THEN IF token.payload.expiry < t
            THEN [valid |-> FALSE, reason |-> "EXPIRED", payload |-> token.payload]
            ELSE [valid |-> TRUE, reason |-> "OK", payload |-> token.payload]
       ELSE IF error.name # "JsonWebTokenError"
       THEN [valid |-> FALSE, reason |-> "raised", payload |-> NoPayload]
       ELSE IF error.message = "invalid signature"
       THEN [valid |-> FALSE, reason |-> "INVALID_SIGNATURE", payload |-> NoPayload]
       ELSE [valid |-> FALSE, reason |-> "MALFORMED", payload |-> NoPayload]

\* a verifier for which a token is already expired at its expiry instant
verifyLicenseKey_ExpiryInclusive(token, secret, t) ==
    LET error == jwtVerifyError(token, secret)
    IN IF error = NoError
       THEN IF token.payload.expiry <= t
            THEN [valid |-> FALSE, reason |-> "EXPIRED", payload |-> token.payload]
            ELSE [valid |-> TRUE, reason |-> "OK", payload |-> token.payload]
       ELSE IF error.name = "JsonWebTokenError"
                /\ error.message = "invalid signature"
       THEN [valid |-> FALSE, reason |-> "INVALID_SIGNATURE", payload |-> NoPayload]
       ELSE [valid |-> FALSE, reason |-> "MALFORMED", payload |-> NoPayload]

\* try: jwt.verify, then the expiry test; catch: "invalid signature" is
\* INVALID_SIGNATURE and every other exception is MALFORMED
verifyLicenseKey(token, secret, t) ==
    LET error == jwtVerifyError(token, secret)
    IN IF error = NoError
       THEN IF token.payload.expiry < t
            THEN [valid |-> FALSE, reason |-> "EXPIRED", payload |-> token.payload]
            ELSE [valid |-> TRUE, reason |-> "OK", payload |-> token.payload]
       ELSE IF error.name = "JsonWebTokenError"
                /\ error.message = "invalid signature"
       THEN [valid |-> FALSE, reason |-> "INVALID_SIGNATURE", payload |-> NoPayload]
       ELSE [valid |-> FALSE, reason |-> "MALFORMED", payload |-> NoPayload]

(***************************************************************************)
(* State.                                                                  *)
(***************************************************************************)
VARIABLES
    now,          \* wall clock
    licenses,     \* licenses table, in insertion order; id = position
    activations,  \* license_activations table, in insertion order
    events,       \* license_events table, in insertion order
    issued,       \* tokens handed out in responses: [id, token]
    pc,           \* per worker: position in its handler
    req,          \* per worker: request fields and handler locals
    resp,         \* per worker: the response of its last finished request
    started,      \* number of requests started
    codec         \* a token on the bench: issued with one key, verified with one

vars == <<now, licenses, activations, events, issued, pc, req, resp, started,
          codec>>

NoLicense ==
    [id |-> 0, tenantId |-> "", modules |-> {}, expiry |-> 0,
     licenseKey |-> NoToken, status |-> "", maxActivations |-> 0,
     createdBy |-> ""]

NoReq ==
    [op |-> "none", licenseKey |-> NoToken, hardwareId |-> "", id |-> 0,
     status |-> "", newExpiry |-> 0, reactivate |-> TRUE,
     verifyResult |-> NoVerify, dbLicense |-> NoLicense,
     currentActivations |-> 0, newLicenseKey |-> NoToken,
     newStatus |-> "", reason |-> "", actor |-> ""]

NoResp ==
    [op |-> "none", code |-> 0, ok |-> FALSE, reason |-> "", payload |-> NoPayload,
     activationNumber |-> 0, currentActivations |-> 0, maxActivations |-> 0,
     license |-> NoLicense]

NoCodec ==
    [stage |-> "none", payload |-> NoPayload, key |-> "", token |-> NoToken,
     damage |-> "none", verifyKey |-> "", at |-> 0, result |-> NoVerify]

Idle(w) == pc[w] \in {"idle", "done"}

\* workers are anonymous: a request is taken by the first free worker
FirstFree(w) ==
    \A i, j \in 1..Len(WorkerOrder) :
        (WorkerOrder[j] = w /\ i < j) => ~Idle(WorkerOrder[i])

CanAccept(w, maxReq) ==
    /\ Idle(w)
    /\ FirstFree(w)
    /\ started < maxReq

\* a request arrives at worker w
Accept(w, maxReq) ==
    /\ CanAccept(w, maxReq)
    /\ started' = started + 1

\* the handler suspends at an await, holding frame r, and resumes at label
Await(w, r, label) ==
    /\ pc' = [pc EXCEPT ![w] = label]
    /\ req' = [req EXCEPT ![w] = r]
    /\ resp' = [resp EXCEPT ![w] = NoResp]

(***************************************************************************)
(* DatabaseStorage (storage.ts).                                           *)
(***************************************************************************)
Range(s) == {s[i] : i \in 1..Len(s)}

getLicenseById(id) ==
    IF id \in 1..Len(licenses) THEN licenses[id] ELSE NoLicense

\* a lookup that compares the decoded claims and not the whole token string
getLicenseByKey_ByPayload(key) ==
    {l \in Range(licenses) : l.licenseKey.payload = key.payload}

\* the rows SELECT ... WHERE license_key = key returns; the handler takes
\* the first of them, and the query has no ORDER BY
getLicenseByKey(key) == {l \in Range(licenses) : l.licenseKey = key}

\* an update that also resets the expiry column
updateLicenseStatus_ResetsExpiry(id, status) ==
    [licenses EXCEPT ![id].status = status, ![id].expiry = 0]

updateLicenseStatus(id, status) ==
    [licenses EXCEPT ![id].status = status]

\* an extension that leaves the status as it finds it
extendLicenseStatus_Keep(status, reactivate) == status

extendLicenseStatus(status, reactivate) ==
    IF status = "REVOKED" /\ ~reactivate THEN "REVOKED" ELSE "ACTIVE"

\* an update that sets expiry and status and leaves the old token in place
extendLicense_KeepToken(id, newExpiry, newLicenseKey, newStatus) ==
    [licenses EXCEPT ![id].expiry = newExpiry, ![id].status = newStatus]

\* the UPDATE of storage.extendLicense, newStatus being the status it
\* computed from the row it read
extendLicense(id, newExpiry, newLicenseKey, newStatus) ==
    [licenses EXCEPT ![id].expiry = newExpiry,
                     ![id].licenseKey = newLicenseKey,
                     ![id].status = newStatus]

getLicenseActivations(licenseId) ==
    SelectSeq(activations, LAMBDA a : a.licenseId = licenseId)

\* a lookup that never finds the row
getActivationByHardwareId_None(licenseId, hardwareId) == {}

\* a lookup that finds the row only while the license has room, as in a
\* handler that tests the quota before it looks for the hardware id
getActivationByHardwareId_QuotaFirst(licenseId, hardwareId) ==
    {a \in Range(activations) :
        /\ a.licenseId = licenseId
        /\ a.hardwareId = hardwareId
        /\ Len(getLicenseActivations(licenseId))
             < getLicenseById(licenseId).maxActivations}

\* a lookup that finds only the rows whose admission Event was written
getActivationByHardwareId_Audited(licenseId, hardwareId) ==
    {a \in Range(activations) :
        /\ a.licenseId = licenseId
        /\ a.hardwareId = hardwareId
        /\ \E e \in Range(events) :
             /\ e.licenseId = licenseId
             /\ e.message.text = "License activated for new hardware"
             /\ e.message.a = hardwareId}

getActivationByHardwareId(licenseId, hardwareId) ==
    {a \in Range(activations) :
        a.licenseId = licenseId /\ a.hardwareId = hardwareId}

\* a store that keeps only the newest Activation row
createLicenseActivation_Replace(activation) == <<activation>>

createLicenseActivation(activation) == Append(activations, activation)

\* a store that acknowledges the insert and drops the row
createLicenseEvent_Dropped(licenseId, eventType, text, a, b, n, actor) == events

\* a store that writes the row twice
createLicenseEvent_Twice(licenseId, eventType, text, a, b, n, actor) ==
    LET e == [licenseId |-> licenseId, eventType |-> eventType,
              message |-> [text |-> text, a |-> a, b |-> b, n |-> n],
              actor |-> actor]
    IN Append(Append(events, e), e)

\* a store that puts the new row in the place of the oldest one
createLicenseEvent_Overwrite(licenseId, eventType, text, a, b, n, actor) ==
    [events EXCEPT ![1] =
        [licenseId |-> licenseId, eventType |-> eventType,
         message |-> [text |-> text, a |-> a, b |-> b, n |-> n],
         actor |-> actor]]

createLicenseEvent(licenseId, eventType, text, a, b, n, actor) ==
    Append(events, [licenseId |-> licenseId, eventType |-> eventType,
                    message |-> [text |-> text, a |-> a, b |-> b, n |-> n],
                    actor |-> actor])

(***************************************************************************)
(* Environment.  Clients present tokens they were handed, tokens signed    *)
(* with another key, or strings that are no token at all.                  *)
(***************************************************************************)
IssuedTokens == {i.token : i \in issued}

PresentableTokens ==
    IssuedTokens
        \cup {[t EXCEPT !.key = OtherSecret] : t \in IssuedTokens}
        \cup {GarbageToken}

\* the clock reads 0 one tick after a local midnight
\* Hardware ids are opaque strings the server only compares for equality,
\* so a client presenting an id the server has not seen yet presents the
\* first such id of HardwareOrder.
SeenHardware ==
    {a.hardwareId : a \in Range(activations)}
        \cup {e.message.a : e \in {x \in Range(events) : x.message.n > 0}}
        \cup {req[w].hardwareId : w \in Workers}

PresentableHardware ==
    {HardwareOrder[i] : i \in {j \in 1..Len(HardwareOrder) :
        \A k \in 1..(j - 1) : HardwareOrder[k] \in SeenHardware}}

StartOfDay(t) == t - ((t + 1) % TicksPerDay)

\* what is left of a frame once the handler has returned: the request
\* as the client sent it
Sent(r) ==
    [NoReq EXCEPT !.op = r.op, !.licenseKey = r.licenseKey,
                  !.hardwareId = r.hardwareId, !.id = r.id,
                  !.status = r.status, !.newExpiry = r.newExpiry,
                  !.reactivate = r.reactivate]

\* the handler holding frame r sends response rsp and returns
Finish(w, r, rsp) ==
    /\ pc' = [pc EXCEPT ![w] = "done"]
    /\ req' = [req EXCEPT ![w] = Sent(r)]
    /\ resp' = [resp EXCEPT ![w] = [rsp EXCEPT !.op = r.op]]

\* a route that stores a token signed for the tenant and modules only
NewLicense_StaleToken(id, tenantId, modules, expiry, maxActivations, createdBy, t) ==
    [id |-> id, tenantId |-> tenantId, modules |-> modules, expiry |-> expiry,
     licenseKey |-> generateLicenseKey([tenantId |-> tenantId,
                                        modules |-> modules,
                                        expiry |-> 0],
                                       LICENSE_SIGNING_SECRET, t),
     status |-> "ACTIVE", maxActivations |-> maxActivations,
     createdBy |-> createdBy]

\* the license row POST /api/licenses stores
NewLicense(id, tenantId, modules, expiry, maxActivations, createdBy, t) ==
    [id |-> id, tenantId |-> tenantId, modules |-> modules, expiry |-> expiry,
     licenseKey |-> generateLicenseKey([tenantId |-> tenantId,
                                        modules |-> modules,
                                        expiry |-> expiry],
                                       LICENSE_SIGNING_SECRET, t),
     status |-> "ACTIVE", maxActivations |-> maxActivations,
     createdBy |-> createdBy]

CreatedEvent(license) ==
    [licenseId |-> license.id, eventType |-> "CREATED",
     message |-> [text |-> "License created", a |-> license.tenantId,
                  b |-> "", n |-> 0],
     actor |-> license.createdBy]

\* The server is up, no request is in flight, and its first license has
\* been issued at clock 0.
Init ==
    /\ now = 0
    /\ \E tenantId \in TenantIds, modules \in ModuleSets, expiry \in Expiries,
          maxActivations \in 1..MaxQuota, createdBy \in Creators :
         LET first == NewLicense(1, tenantId, modules, expiry,
                                 maxActivations, createdBy, 0)
         IN /\ licenses = <<first>>
            /\ events = <<CreatedEvent(first)>>
            /\ issued = {[id |-> 1, token |-> first.licenseKey]}
    /\ activations = <<>>
    /\ pc = [w \in Workers |-> "idle"]
    /\ req = [w \in Workers |-> NoReq]
    /\ resp = [w \in Workers |-> NoResp]
    /\ started = 0
    /\ codec = NoCodec

Tick ==
    /\ now < MaxTime
    /\ now' = now + 1
    /\ UNCHANGED <<codec, licenses, activations, events, issued, pc, req, resp,
                   started>>

(***************************************************************************)
(* POST /api/licenses                                                      *)
(***************************************************************************)
IssueWith(w, maxReq, tenantId, modules, expiry, maxActivations, createdBy) ==
    /\ Accept(w, maxReq)
    /\ Len(licenses) < MaxLicenses
    /\ LET created == NewLicense(Len(licenses) + 1, tenantId, modules, expiry,
                                 maxActivations, createdBy, now)
       IN /\ licenses' = Append(licenses, created)
          /\ Await(w, [NoReq EXCEPT !.op = "issue", !.dbLicense = created,
                                    !.actor = createdBy], "i_event")
    /\ UNCHANGED <<codec, now, activations, events, issued>>

IssueCreate(w, maxReq) ==
    /\ CanAccept(w, maxReq)
    /\ \E tenantId \in TenantIds, modules \in ModuleSets, expiry \in Expiries,
       maxActivations \in 1..MaxQuota, createdBy \in Creators :
         IssueWith(w, maxReq, tenantId, modules, expiry, maxActivations, createdBy)

IssueEvent(w) ==
    /\ pc[w] = "i_event"
    /\ events' = Append(events, CreatedEvent(req[w].dbLicense))
    /\ issued' = issued \cup {[id |-> req[w].dbLicense.id,
                               token |-> req[w].dbLicense.licenseKey]}
    /\ Finish(w, req[w], [NoResp EXCEPT !.code = 201, !.ok = TRUE,
                                        !.license = req[w].dbLicense])
    /\ UNCHANGED <<codec, now, licenses, activations, started>>

(***************************************************************************)
(* POST /api/licenses/validate                                             *)
(***************************************************************************)
\* the row the handler destructures from a query result: undefined when
\* the result is empty
FirstRow(rows) == IF rows = {} THEN {NoLicense} ELSE rows

\* a handler without the REVOKED branch
ValidateDecision_NoRevoked(dbLicense, verifyResult) ==
    IF dbLicense = NoLicense THEN "NOT_FOUND"
    ELSE IF dbLicense.status = "EXPIRED"
            \/ (~verifyResult.valid /\ verifyResult.reason = "EXPIRED")
    THEN "EXPIRED"
    ELSE IF ~verifyResult.valid THEN verifyResult.reason
    ELSE "OK"

\* a handler that looks at the expiry before it looks at REVOKED
ValidateDecision_ExpiryFirst(dbLicense, verifyResult) ==
    IF dbLicense = NoLicense THEN "NOT_FOUND"
    ELSE IF dbLicense.status = "EXPIRED"
            \/ (~verifyResult.valid /\ verifyResult.reason = "EXPIRED")
    THEN "EXPIRED"
    ELSE IF dbLicense.status = "REVOKED" THEN "REVOKED"
    ELSE IF ~verifyResult.valid THEN verifyResult.reason
    ELSE "OK"

\* a handler that reports a codec failure before it looks at the status
ValidateDecision_CodecFirst(dbLicense, verifyResult) ==
    IF dbLicense = NoLicense THEN "NOT_FOUND"
    ELSE IF ~verifyResult.valid THEN verifyResult.reason
    ELSE IF dbLicense.status = "REVOKED" THEN "REVOKED"
    ELSE IF dbLicense.status = "EXPIRED" THEN "EXPIRED"
    ELSE "OK"

\* a handler that judges expiry by the stored status alone
ValidateDecision_StatusOnly(dbLicense, verifyResult) ==
    IF dbLicense = NoLicense THEN "NOT_FOUND"
    ELSE IF dbLicense.status = "REVOKED" THEN "REVOKED"
    ELSE IF dbLicense.status = "EXPIRED" THEN "EXPIRED"
    ELSE IF ~verifyResult.valid /\ verifyResult.reason # "EXPIRED"
    THEN verifyResult.reason
    ELSE "OK"

\* the branch the handler takes once it holds verifyResult and dbLicense
ValidateDecision(dbLicense, verifyResult) ==
    IF dbLicense = NoLicense THEN "NOT_FOUND"
    ELSE IF dbLicense.status = "REVOKED" THEN "REVOKED"
    ELSE IF dbLicense.status = "EXPIRED"
            \/ (~verifyResult.valid /\ verifyResult.reason = "EXPIRED")
    THEN "EXPIRED"
    ELSE IF ~verifyResult.valid THEN verifyResult.reason
    ELSE "OK"

\* an EXPIRED branch that never writes the status
ValidateMustExpire_Never(dbLicense, reason) == FALSE

\* the EXPIRED branch writes the status only when it is not EXPIRED yet
ValidateMustExpire(dbLicense, reason) ==
    reason = "EXPIRED" /\ dbLicense.status # "EXPIRED"

\* the handler up to its first suspension, dbLicense being the row the
\* lookup handed it
ValidateRow(w, maxReq, licenseKey, dbLicense) ==
    /\ Accept(w, maxReq)
    /\     LET verifyResult == verifyLicenseKey(licenseKey, LICENSE_SIGNING_SECRET, now)
               reason == ValidateDecision(dbLicense, verifyResult)
               frame == [NoReq EXCEPT !.op = "validate",
                                      !.licenseKey = licenseKey,
                                      !.verifyResult = verifyResult,
                                      !.dbLicense = dbLicense,
                                      !.reason = reason,
                                      !.actor = "system"]
           IN IF reason = "NOT_FOUND"
              THEN Finish(w, frame,
                          [NoResp EXCEPT !.code = 200, !.reason = "NOT_FOUND"])
              ELSE Await(w, frame,
                         IF ValidateMustExpire(dbLicense, reason)
                         THEN "v_update" ELSE "v_event")
    /\ UNCHANGED <<codec, now, licenses, activations, events, issued>>

ValidateWith(w, maxReq, licenseKey) ==
    \E dbLicense \in FirstRow(getLicenseByKey(licenseKey)) :
        ValidateRow(w, maxReq, licenseKey, dbLicense)

ValidateStart(w, maxReq) ==
    /\ CanAccept(w, maxReq)
    /\ \E licenseKey \in PresentableTokens : ValidateWith(w, maxReq, licenseKey)

ValidateUpdate(w) ==
    /\ pc[w] = "v_update"
    /\ licenses' = updateLicenseStatus(req[w].dbLicense.id, "EXPIRED")
    /\ pc' = [pc EXCEPT ![w] = "v_event"]
    /\ UNCHANGED <<codec, now, activations, events, issued, req, resp, started>>

ValidateEvent(w) ==
    /\ pc[w] = "v_event"
    /\ LET r == req[w]
       IN /\ events' = createLicenseEvent(r.dbLicense.id, "VALIDATED",
                          IF r.reason = "OK" THEN "License validation successful"
                          ELSE "License validation failed",
                          r.reason, "", 0, "system")
          /\ Finish(w, req[w],
                    [NoResp EXCEPT !.code = 200,
                                   !.ok = (r.reason = "OK"),
                                   !.reason = r.reason,
                                   !.payload = r.verifyResult.payload])
    /\ UNCHANGED <<codec, now, licenses, activations, issued, started>>

(***************************************************************************)
(* POST /api/licenses/activate                                             *)
(***************************************************************************)
\* precondition checks without the REVOKED branch
ActivatePrecheck_NoRevoked(dbLicense, verifyResult) ==
    IF dbLicense = NoLicense THEN "NOT_FOUND"
    ELSE IF dbLicense.status = "EXPIRED"
            \/ (~verifyResult.valid /\ verifyResult.reason = "EXPIRED")
    THEN "EXPIRED"
    ELSE IF ~verifyResult.valid THEN verifyResult.reason
    ELSE "PASS"

\* precondition checks that do not look at the expiry
ActivatePrecheck_NoExpiry(dbLicense, verifyResult) ==
    IF dbLicense = NoLicense THEN "NOT_FOUND"
    ELSE IF dbLicense.status = "REVOKED" THEN "REVOKED"
    ELSE IF ~verifyResult.valid /\ verifyResult.reason # "EXPIRED"
    THEN verifyResult.reason
    ELSE "PASS"

\* precondition checks that look at the expiry before they look at REVOKED
ActivatePrecheck_ExpiryFirst(dbLicense, verifyResult) ==
    IF dbLicense = NoLicense THEN "NOT_FOUND"
    ELSE IF dbLicense.status = "EXPIRED"
            \/ (~verifyResult.valid /\ verifyResult.reason = "EXPIRED")
    THEN "EXPIRED"
    ELSE IF dbLicense.status = "REVOKED" THEN "REVOKED"
    ELSE IF ~verifyResult.valid THEN verifyResult.reason
    ELSE "PASS"

\* the precondition checks of the handler; "PASS" when none returns early
ActivatePrecheck(dbLicense, verifyResult) ==
    IF dbLicense = NoLicense THEN "NOT_FOUND"
    ELSE IF dbLicense.status = "REVOKED" THEN "REVOKED"
    ELSE IF dbLicense.status = "EXPIRED"
            \/ (~verifyResult.valid /\ verifyResult.reason = "EXPIRED")
    THEN "EXPIRED"
    ELSE IF ~verifyResult.valid THEN verifyResult.reason
    ELSE "PASS"

\* an off-by-one quota comparison
MaxActivationsReached_Strict(count, maxActivations) == count > maxActivations

MaxActivationsReached(count, maxActivations) == count >= maxActivations

\* a table without the unique key accepts every insert
UniqueViolation_NoKey(licenseId, hardwareId) == FALSE

\* the license_activations table is keyed uniquely by (license id,
\* hardware id): an insert of a pair that is already there is refused
UniqueViolation(licenseId, hardwareId) ==
    \E a \in Range(activations) :
        a.licenseId = licenseId /\ a.hardwareId = hardwareId

PublicIp == "203.0.113.7"

\* the handler up to its first suspension, dbLicense being the row the
\* lookup handed it
ActivateRow(w, maxReq, licenseKey, hardwareId, dbLicense) ==
    /\ Accept(w, maxReq)
    /\     LET verifyResult == verifyLicenseKey(licenseKey, LICENSE_SIGNING_SECRET, now)
               reason == ActivatePrecheck(dbLicense, verifyResult)
               frame == [NoReq EXCEPT !.op = "activate",
                                      !.licenseKey = licenseKey,
                                      !.hardwareId = hardwareId,
                                      !.verifyResult = verifyResult,
                                      !.dbLicense = dbLicense,
                                      !.reason = reason,
                                      !.actor = "system"]
           IN IF reason = "PASS"
              THEN Await(w, frame, "a_existing")
              ELSE Finish(w, frame,
                          [NoResp EXCEPT !.code = 200, !.reason = reason])
    /\ UNCHANGED <<codec, now, licenses, activations, events, issued>>

ActivateWith(w, maxReq, licenseKey, hardwareId) ==
    \E dbLicense \in FirstRow(getLicenseByKey(licenseKey)) :
        ActivateRow(w, maxReq, licenseKey, hardwareId, dbLicense)

ActivateStart(w, maxReq) ==
    /\ CanAccept(w, maxReq)
    /\ \E licenseKey \in PresentableTokens, hardwareId \in PresentableHardware :
         ActivateWith(w, maxReq, licenseKey, hardwareId)

ActivateExisting(w) ==
    /\ pc[w] = "a_existing"
    /\ LET existingActivation ==
             getActivationByHardwareId(req[w].dbLicense.id, req[w].hardwareId)
       IN IF existingActivation # {}
          THEN /\ pc' = [pc EXCEPT ![w] = "a_event"]
               /\ req' = [req EXCEPT ![w].reason = "ALREADY_ACTIVATED"]
          ELSE /\ pc' = [pc EXCEPT ![w] = "a_count"]
               /\ UNCHANGED req
    /\ UNCHANGED <<codec, now, licenses, activations, events, issued, resp, started>>

ActivateCount(w) ==
    /\ pc[w] = "a_count"
    /\ LET currentActivations == getLicenseActivations(req[w].dbLicense.id)
       IN IF MaxActivationsReached(Len(currentActivations),
                                   req[w].dbLicense.maxActivations)
          THEN /\ pc' = [pc EXCEPT ![w] = "a_event"]
               /\ req' = [req EXCEPT
                            ![w].reason = "MAX_ACTIVATIONS_REACHED",
                            ![w].currentActivations = Len(currentActivations)]
          ELSE /\ pc' = [pc EXCEPT ![w] = "a_insert"]
               /\ req' = [req EXCEPT
                            ![w].currentActivations = Len(currentActivations)]
    /\ UNCHANGED <<codec, now, licenses, activations, events, issued, resp, started>>

ActivateInsert(w) ==
    /\ pc[w] = "a_insert"
    /\ IF UniqueViolation(req[w].dbLicense.id, req[w].hardwareId)
       THEN \* the insert throws; the catch block answers 500
            /\ Finish(w, req[w],
                      [NoResp EXCEPT !.code = 500, !.reason = "INTERNAL_ERROR"])
            /\ UNCHANGED activations
       ELSE /\ activations' = createLicenseActivation(
                                [licenseId |-> req[w].dbLicense.id,
                                 hardwareId |-> req[w].hardwareId,
                                 publicIp |-> PublicIp])
            /\ pc' = [pc EXCEPT ![w] = "a_event"]
            /\ req' = [req EXCEPT ![w].reason = "OK"]
            /\ UNCHANGED resp
    /\ UNCHANGED <<codec, now, licenses, events, issued, started>>

ActivateEvent(w) ==
    /\ pc[w] = "a_event"
    /\ LET r == req[w]
       IN /\ events' = createLicenseEvent(r.dbLicense.id, "VALIDATED",
                          CASE r.reason = "ALREADY_ACTIVATED" ->
                                 "License re-validated for existing hardware"
                            [] r.reason = "MAX_ACTIVATIONS_REACHED" ->
                                 "Activation rejected: max activations reached"
                            [] OTHER -> "License activated for new hardware",
                          r.hardwareId, "",
                          IF r.reason = "OK" THEN r.currentActivations + 1
                          ELSE r.dbLicense.maxActivations,
                          "system")
          /\ Finish(w, req[w],
               CASE r.reason = "ALREADY_ACTIVATED" ->
                      [NoResp EXCEPT !.code = 200, !.ok = TRUE,
                                     !.reason = "ALREADY_ACTIVATED",
                                     !.payload = r.verifyResult.payload]
                 [] r.reason = "MAX_ACTIVATIONS_REACHED" ->
                      [NoResp EXCEPT !.code = 200,
                                     !.reason = "MAX_ACTIVATIONS_REACHED",
                                     !.currentActivations = r.currentActivations,
                                     !.maxActivations = r.dbLicense.maxActivations]
                 [] OTHER ->
                      [NoResp EXCEPT !.code = 200, !.ok = TRUE,
                                     !.reason = "OK",
                                     !.payload = r.verifyResult.payload,
                                     !.activationNumber = r.currentActivations + 1,
                                     !.maxActivations = r.dbLicense.maxActivations])
    /\ UNCHANGED <<codec, now, licenses, activations, issued, started>>

(***************************************************************************)
(* PATCH /api/licenses/:id/status                                          *)
(***************************************************************************)
AdminStatuses == {"ACTIVE", "REVOKED"}

\* licenseStatusEnum: the values of the status column
licenseStatusEnum == {"ACTIVE", "REVOKED", "EXPIRED"}

\* a schema that takes every value of the status column
StatusAccepted_AnyEnum(status) == status \in licenseStatusEnum

\* updateLicenseStatusSchema: z.enum(["ACTIVE", "REVOKED"])
StatusAccepted(status) == status \in AdminStatuses

StatusWith(w, maxReq, id, status, actor) ==
    /\ Accept(w, maxReq)
    /\ LET existingLicense == getLicenseById(id)
           frame == [NoReq EXCEPT !.op = "status", !.id = id,
                                  !.status = status,
                                  !.dbLicense = existingLicense,
                                  !.actor = actor]
       IN IF ~StatusAccepted(status)
          THEN Finish(w, frame,
                      [NoResp EXCEPT !.code = 400,
                                     !.reason = "Validation failed"])
          ELSE IF existingLicense = NoLicense
          THEN Finish(w, frame, [NoResp EXCEPT !.code = 404,
                                               !.reason = "License not found"])
          ELSE Await(w, frame, "s_update")
    /\ UNCHANGED <<codec, now, licenses, activations, events, issued>>

StatusStart(w, maxReq) ==
    /\ CanAccept(w, maxReq)
    /\ \E id \in 1..MaxLicenses, status \in licenseStatusEnum, actor \in Creators :
         StatusWith(w, maxReq, id, status, actor)

StatusUpdate(w) ==
    /\ pc[w] = "s_update"
    /\ licenses' = updateLicenseStatus(req[w].id, req[w].status)
    /\ pc' = [pc EXCEPT ![w] = "s_event"]
    /\ UNCHANGED <<codec, now, activations, events, issued, req, resp, started>>

StatusEvent(w) ==
    /\ pc[w] = "s_event"
    /\ events' = createLicenseEvent(req[w].id, "STATUS_CHANGED",
                     "License status changed", req[w].dbLicense.status,
                     req[w].status, 0, req[w].actor)
    /\ Finish(w, req[w], [NoResp EXCEPT !.code = 200, !.ok = TRUE,
                                          !.license = getLicenseById(req[w].id)])
    /\ UNCHANGED <<codec, now, licenses, activations, issued, started>>

(***************************************************************************)
(* PATCH /api/licenses/:id/extend                                          *)
(***************************************************************************)
\* extendLicenseSchema: the new expiry must lie after today's local midnight
ExtendExpiryAccepted(newExpiry, t) == newExpiry > StartOfDay(t)

\* a route that lets the storage layer keep the REVOKED status
RevokedWithoutReactivation_Allowed(existingLicense, reactivate) == FALSE

\* the route refuses to extend a REVOKED license that is not reactivated
RevokedWithoutReactivation(existingLicense, reactivate) ==
    existingLicense.status = "REVOKED" /\ ~reactivate

ExtendWith(w, maxReq, id, newExpiry, reactivate, actor) ==
    /\ Accept(w, maxReq)
    /\ LET existingLicense == getLicenseById(id)
           payload == [tenantId |-> existingLicense.tenantId,
                       modules |-> existingLicense.modules,
                       expiry |-> newExpiry]
           frame == [NoReq EXCEPT !.op = "extend", !.id = id,
                                  !.newExpiry = newExpiry,
                                  !.reactivate = reactivate,
                                  !.actor = actor,
                                  !.dbLicense = existingLicense]
       IN IF ~ExtendExpiryAccepted(newExpiry, now)
          THEN Finish(w, frame, [NoResp EXCEPT !.code = 400,
                                               !.reason = "Validation failed"])
          ELSE IF existingLicense = NoLicense
          THEN Finish(w, frame, [NoResp EXCEPT !.code = 404,
                                               !.reason = "License not found"])
          ELSE IF RevokedWithoutReactivation(existingLicense, reactivate)
          THEN Finish(w, frame, [NoResp EXCEPT
                     !.code = 400,
                     !.reason = "Cannot extend revoked license without reactivation"])
          ELSE Await(w, [frame EXCEPT
                           !.newLicenseKey =
                              generateLicenseKey(payload,
                                  LICENSE_SIGNING_SECRET, now)], "e_read")
    /\ UNCHANGED <<codec, now, licenses, activations, events, issued>>

ExtendStart(w, maxReq) ==
    /\ CanAccept(w, maxReq)
    /\ \E id \in 1..MaxLicenses, newExpiry \in ExtendExpiries,
          reactivate \in BOOLEAN, actor \in Creators :
         ExtendWith(w, maxReq, id, newExpiry, reactivate, actor)

\* storage.extendLicense: first round trip, the read of the row
ExtendRead(w) ==
    /\ pc[w] = "e_read"
    /\ req' = [req EXCEPT ![w].newStatus =
                  extendLicenseStatus(getLicenseById(req[w].id).status,
                                      req[w].reactivate)]
    /\ pc' = [pc EXCEPT ![w] = "e_update"]
    /\ UNCHANGED <<codec, now, licenses, activations, events, issued, resp, started>>

\* storage.extendLicense: second round trip, the update of the row
ExtendUpdate(w) ==
    /\ pc[w] = "e_update"
    /\ licenses' = extendLicense(req[w].id, req[w].newExpiry,
                                 req[w].newLicenseKey, req[w].newStatus)
    /\ pc' = [pc EXCEPT ![w] = "e_event"]
    /\ UNCHANGED <<codec, now, activations, events, issued, req, resp, started>>

ExtendEvent(w) ==
    /\ pc[w] = "e_event"
    /\ events' = createLicenseEvent(req[w].id, "STATUS_CHANGED",
                     "License extended. New license key generated.",
                     IF req[w].dbLicense.status = "REVOKED" /\ req[w].reactivate
                     THEN "License reactivated." ELSE "",
                     "", req[w].newExpiry, req[w].actor)
    /\ issued' = issued \cup {[id |-> req[w].id, token |-> req[w].newLicenseKey]}
    /\ Finish(w, req[w], [NoResp EXCEPT !.code = 200, !.ok = TRUE,
                                          !.license = getLicenseById(req[w].id)])
    /\ UNCHANGED <<codec, now, licenses, activations, started>>

(***************************************************************************)
(* Storage failures.  A storage call of validate or activate rejects (the  *)
(* database is unreachable, a statement fails): the await throws and the   *)
(* catch block of the handler answers.  The rejected call has no effect.   *)
(***************************************************************************)
\* what the catch block of the handler of op sends
CatchResponse(op) ==
    IF op = "validate"
    THEN [NoResp EXCEPT !.code = 500, !.reason = "MALFORMED"]
    ELSE [NoResp EXCEPT !.code = 500, !.reason = "INTERNAL_ERROR"]

\* storage.getLicenseByKey, the first storage call of both handlers, rejects
LookupFails(w, maxReq) ==
    /\ Accept(w, maxReq)
    /\ \E op \in {"validate", "activate"}, licenseKey \in PresentableTokens,
          hardwareId \in PresentableHardware :
         Finish(w, [NoReq EXCEPT
                      !.op = op,
                      !.licenseKey = licenseKey,
                      !.hardwareId = IF op = "activate" THEN hardwareId ELSE ""],
                CatchResponse(op))
    /\ UNCHANGED <<codec, now, licenses, activations, events, issued>>

\* a later storage call of a validate or activate request in flight rejects
StorageFails(w) ==
    /\ pc[w] \in {"v_update", "v_event", "a_existing", "a_count", "a_insert",
                  "a_event"}
    /\ Finish(w, req[w], CatchResponse(req[w].op))
    /\ UNCHANGED <<codec, now, licenses, activations, events, issued, started>>

(***************************************************************************)
(* The token codec on its own: a token is issued for any tenant, module    *)
(* set and expiry with one key and verified, now or later, with the same   *)
(* key or another.                                                         *)
(***************************************************************************)
CodecTenants == {"acme", "globex"}

AVAILABLE_MODULES ==
    {"CUSTOM_PORTAL", "ASSET_MANAGEMENT", "SERVICE_DESK", "EPM"}

CodecModules == SUBSET AVAILABLE_MODULES \ {{}}

CodecKeys == {LICENSE_SIGNING_SECRET, OtherSecret}

CodecIssue ==
    /\ codec.stage = "none"
    /\ \E tenantId \in CodecTenants, modules \in CodecModules,
          expiry \in Expiries, key \in CodecKeys :
         LET payload == [tenantId |-> tenantId, modules |-> modules,
                         expiry |-> expiry]
         IN codec' = [NoCodec EXCEPT
                        !.stage = "issued",
                        !.payload = payload,
                        !.key = key,
                        !.token = generateLicenseKey(payload, key, now)]
    /\ UNCHANGED <<now, licenses, activations, events, issued, pc, req, resp,
                   started>>

\* What a client can do to a token string without the key: cut it short
\* (to nothing, inside the header, inside the payload, right after the
\* second dot, inside the signature) or put another payload part in it,
\* one that decodes to claims or one that does not decode.
Truncations ==
    {"cut-all", "cut-header", "cut-payload", "cut-at-signature",
     "cut-signature"}

Corrupt(token, damage, claims) ==
    CASE damage = "cut-all" -> NoToken
      [] damage = "cut-header" ->
            [token EXCEPT !.form = "one-part", !.payload = NoPayload]
      [] damage = "cut-payload" ->
            [token EXCEPT !.form = "two-parts", !.payload = NoPayload]
      [] damage = "cut-at-signature" -> [token EXCEPT !.form = "no-signature"]
      [] damage = "cut-signature" -> [token EXCEPT !.form = "short-signature"]
      [] damage = "payload-claims" ->
            [token EXCEPT !.form = "foreign-payload", !.payload = claims]
      [] damage = "payload-junk" ->
            [token EXCEPT !.form = "bad-payload", !.payload = NoPayload]

CodecCorrupt ==
    /\ codec.stage = "issued"
    /\ codec.damage = "none"
    /\ \E damage \in Truncations \cup {"payload-claims", "payload-junk"},
          expiry \in Expiries :
         codec' = [codec EXCEPT
                     !.damage = damage,
                     !.token = Corrupt(codec.token, damage,
                                       [codec.payload EXCEPT !.expiry = expiry])]
    /\ UNCHANGED <<now, licenses, activations, events, issued, pc, req, resp,
                   started>>

CodecVerify ==
    /\ codec.stage # "none"
    /\ \E verifyKey \in CodecKeys :
         codec' = [codec EXCEPT
                     !.stage = "verified",
                     !.verifyKey = verifyKey,
                     !.at = now,
                     !.result = verifyLicenseKey(codec.token, verifyKey, now)]
    /\ UNCHANGED <<now, licenses, activations, events, issued, pc, req, resp,
                   started>>

(***************************************************************************)
(* Specifications.  Spec: request workers interleave at every await.       *)
(* SpecSeq: one worker, so requests run one after another.  SpecCodec:     *)
(* the codec alone, against the clock.  SpecFail: SpecSeq with storage     *)
(* calls that may fail.                                                    *)
(***************************************************************************)
Step(w, maxReq) ==
    \/ IssueCreate(w, maxReq)
    \/ IssueEvent(w)
    \/ ValidateStart(w, maxReq)
    \/ ValidateUpdate(w)
    \/ ValidateEvent(w)
    \/ ActivateStart(w, maxReq)
    \/ ActivateExisting(w)
    \/ ActivateCount(w)
    \/ ActivateInsert(w)
    \/ ActivateEvent(w)
    \/ StatusStart(w, maxReq)
    \/ StatusUpdate(w)
    \/ StatusEvent(w)
    \/ ExtendStart(w, maxReq)
    \/ ExtendRead(w)
    \/ ExtendUpdate(w)
    \/ ExtendEvent(w)

Next == Tick \/ \E w \in Workers : Step(w, MaxRequests)

NextSeq == Tick \/ \E w \in SeqWorkers : Step(w, MaxSeqRequests)

NextFail ==
    \/ NextSeq
    \/ \E w \in SeqWorkers : LookupFails(w, MaxSeqRequests) \/ StorageFails(w)

NextCodec == Tick \/ CodecIssue \/ CodecCorrupt \/ CodecVerify

Spec == Init /\ [][Next]_vars

SpecSeq == Init /\ [][NextSeq]_vars

SpecCodec == Init /\ [][NextCodec]_vars

SpecFail == Init /\ [][NextFail]_vars

(***************************************************************************)
(* Properties.                                                             *)
(***************************************************************************)
LicenseIds == 1..Len(licenses)

\* hardware id h holds an Activation row of license id
Bound(id, h) ==
    \E a \in Range(activations) : a.licenseId = id /\ a.hardwareId = h

ActivationCount(id) ==
    Cardinality({i \in 1..Len(activations) : activations[i].licenseId = id})

\* C1: in every reachable state, whatever the interleaving of concurrent
\* activate requests, a license has at most maxActivations Activation rows.
C1_QuotaNeverExceeded ==
    \A id \in LicenseIds : ActivationCount(id) <= licenses[id].maxActivations

\* the license whose current token is key, as a set of ids
CurrentOf(key) == {id \in LicenseIds : licenses[id].licenseKey = key}

ActivatedEvent(e) ==
    e.eventType = "VALIDATED"
        /\ e.message.text = "License activated for new hardware"

\* C2: there is at most one Activation row per (license id, hardware id)
\* pair, and at most one activate request per pair is answered OK (the OK
\* answer and its "activated for new hardware" event are one step), also
\* when two requests for the same new hardware id run concurrently.
C2_OneRowPerHardware ==
    /\ \A i, j \in 1..Len(activations) :
         (activations[i].licenseId = activations[j].licenseId
             /\ activations[i].hardwareId = activations[j].hardwareId) => i = j
    /\ \A i, j \in 1..Len(events) :
         (ActivatedEvent(events[i]) /\ ActivatedEvent(events[j])
             /\ events[i].licenseId = events[j].licenseId
             /\ events[i].message.a = events[j].message.a) => i = j

\* two concurrent requests for the same new hardware id collided: the
\* second insert was refused and answered INTERNAL_ERROR, one row was left
C2_Witness ==
    \E w \in Workers :
        /\ pc[w] = "done"
        /\ resp[w].op = "activate"
        /\ resp[w].reason = "INTERNAL_ERROR"
        /\ \E id \in CurrentOf(req[w].licenseKey) :
             Bound(id, req[w].hardwareId) /\ ActivationCount(id) = 1

(***************************************************************************)
(* Sequential admission (SpecSeq).                                         *)
(***************************************************************************)
\* hardware id h was admitted to license id by a request answered before
\* the newest event was written
AdmittedEarlier(id, h) ==
    \E i \in 1..(Len(events) - 1) :
        /\ ActivatedEvent(events[i])
        /\ events[i].licenseId = id
        /\ events[i].message.a = h

\* the token verifies now and every license holding it is ACTIVE
Admissible(key) ==
    /\ CurrentOf(key) # {}
    /\ \A id \in CurrentOf(key) : licenses[id].status = "ACTIVE"
    /\ verifyLicenseKey(key, LICENSE_SIGNING_SECRET, now).valid

\* C3: with requests served one after another, an activate request on an
\* ACTIVE license with a valid unexpired token is answered OK,
\* ALREADY_ACTIVATED or MAX_ACTIVATIONS_REACHED.  OK carries as
\* activationNumber the number of rows the license then has (so the admits
\* of a license with maxActivations = N are numbered 1, 2, ..., N in order),
\* its row is the newest one and the number never passes N.
\* ALREADY_ACTIVATED is answered only to a hardware id admitted earlier.
\* MAX_ACTIVATIONS_REACHED is answered only when the license has exactly N
\* rows: activated = false, currentActivations = N, maxActivations = N, and
\* no row for the rejected hardware id.
C3_SequentialAdmits ==
    \A w \in SeqWorkers :
        (pc[w] = "done" /\ resp[w].op = "activate") =>
            LET id == events[Len(events)].licenseId
                hw == req[w].hardwareId
                n == licenses[id].maxActivations
            IN /\ Admissible(req[w].licenseKey) =>
                     resp[w].reason \in {"OK", "ALREADY_ACTIVATED",
                                         "MAX_ACTIVATIONS_REACHED"}
               /\ resp[w].reason = "OK" =>
                     /\ resp[w].ok
                     /\ resp[w].activationNumber = ActivationCount(id)
                     /\ resp[w].activationNumber <= n
                     /\ resp[w].maxActivations = n
                     /\ activations[Len(activations)].licenseId = id
                     /\ activations[Len(activations)].hardwareId = hw
                     /\ ~AdmittedEarlier(id, hw)
               /\ resp[w].reason = "ALREADY_ACTIVATED" =>
                     resp[w].ok /\ AdmittedEarlier(id, hw)
               /\ resp[w].reason = "MAX_ACTIVATIONS_REACHED" =>
                     /\ ~resp[w].ok
                     /\ ActivationCount(id) = n
                     /\ resp[w].currentActivations = n
                     /\ resp[w].maxActivations = n
                     /\ ~Bound(id, hw)

\* a license with the largest quota has admitted that many hardware ids,
\* numbered in order, and the next new hardware id was just rejected
C3_Witness ==
    \E w \in SeqWorkers :
        /\ pc[w] = "done"
        /\ resp[w].op = "activate"
        /\ resp[w].reason = "MAX_ACTIVATIONS_REACHED"
        /\ resp[w].currentActivations = MaxQuota
        /\ resp[w].maxActivations = MaxQuota
        /\ Admissible(req[w].licenseKey)
        /\ \A id \in CurrentOf(req[w].licenseKey) :
             /\ ActivationCount(id) = MaxQuota
             /\ ~Bound(id, req[w].hardwareId)
             /\ \A k \in 1..MaxQuota :
                  \E i \in 1..Len(events) :
                      /\ ActivatedEvent(events[i])
                      /\ events[i].licenseId = id
                      /\ events[i].message.n = k

(***************************************************************************)
(* Admission of a hardware id that is already bound.                       *)
(***************************************************************************)
\* C4 as stated: an activate request for a hardware id that has an
\* Activation row of the license the token names is never refused by the
\* precondition checks.
C4_BoundHardwareNeverRefused ==
    [][\A w \in Workers :
         \A key \in PresentableTokens, hw \in HardwareIds :
           \A dbLicense \in getLicenseByKey(key) :
             (ActivateRow(w, MaxRequests, key, hw, dbLicense)
                 /\ Bound(dbLicense.id, hw))
               => ~(pc'[w] = "done" /\ ~resp'[w].ok)]_vars

\* C4, amended: when the license is ACTIVE and the token verifies, an
\* activate request for a hardware id that has an Activation row of the
\* license passes the precondition checks, finds the row, and is answered
\* activated = true with reason ALREADY_ACTIVATED; none of its steps
\* changes the Activation rows.  A REVOKED or EXPIRED license, or an
\* expired token, is refused with that reason before the row is looked up.
C4_ReadmitWhenAdmissible ==
    [][\A w \in Workers :
         /\ \A key \in PresentableTokens, hw \in HardwareIds :
              \A dbLicense \in getLicenseByKey(key) :
                (ActivateRow(w, MaxRequests, key, hw, dbLicense)
                    /\ Bound(dbLicense.id, hw))
                  => IF dbLicense.status = "ACTIVE"
                        /\ verifyLicenseKey(key, LICENSE_SIGNING_SECRET, now).valid
                     THEN pc'[w] = "a_existing" /\ activations' = activations
                     ELSE /\ pc'[w] = "done"
                          /\ ~resp'[w].ok
                          /\ resp'[w].reason \in {"REVOKED", "EXPIRED"}
                          /\ activations' = activations
         /\ (pc[w] = "a_existing" /\ pc'[w] # "a_existing"
                /\ Bound(req[w].dbLicense.id, req[w].hardwareId))
              => /\ pc'[w] = "a_event"
                 /\ req'[w].reason = "ALREADY_ACTIVATED"
                 /\ activations' = activations
         /\ (pc[w] = "a_event" /\ pc'[w] # "a_event"
                /\ req[w].reason = "ALREADY_ACTIVATED")
              => /\ pc'[w] = "done"
                 /\ resp'[w].ok
                 /\ resp'[w].reason = "ALREADY_ACTIVATED"
                 /\ activations' = activations]_vars

\* a hardware id was admitted and then admitted again: the second answer
\* is ALREADY_ACTIVATED and the license still has the one row
C4_Witness ==
    \E w \in Workers :
        /\ pc[w] = "done"
        /\ resp[w].op = "activate"
        /\ resp[w].ok
        /\ resp[w].reason = "ALREADY_ACTIVATED"
        /\ \E id \in CurrentOf(req[w].licenseKey) :
             /\ Bound(id, req[w].hardwareId)
             /\ ActivationCount(id) = 1

(***************************************************************************)
(* Admission against a REVOKED license.                                    *)
(***************************************************************************)
\* C5: an activate request whose license row has stored status REVOKED is
\* answered at once with activated = false and reason REVOKED, and creates
\* no Activation row, whatever the token's verification result and the
\* unused quota.
C5_RevokedRejectsAdmit ==
    [][\A w \in Workers :
         \A key \in PresentableTokens, hw \in HardwareIds :
           \A dbLicense \in getLicenseByKey(key) :
             (ActivateRow(w, MaxRequests, key, hw, dbLicense)
                 /\ dbLicense.status = "REVOKED")
               => /\ pc'[w] = "done"
                  /\ ~resp'[w].ok
                  /\ resp'[w].reason = "REVOKED"
                  /\ activations' = activations]_vars

\* a REVOKED license whose token still verifies and whose quota is unused
\* has refused an activate request with REVOKED
C5_Witness ==
    \E w \in Workers :
        /\ pc[w] = "done"
        /\ resp[w].op = "activate"
        /\ ~resp[w].ok
        /\ resp[w].reason = "REVOKED"
        /\ verifyLicenseKey(req[w].licenseKey, LICENSE_SIGNING_SECRET, now).valid
        /\ \E id \in CurrentOf(req[w].licenseKey) :
             /\ licenses[id].status = "REVOKED"
             /\ ActivationCount(id) < licenses[id].maxActivations
             /\ ~Bound(id, req[w].hardwareId)

(***************************************************************************)
(* Validation.                                                             *)
(***************************************************************************)
\* C6: a validate request is decided OK only when the row the lookup found
\* is a stored license whose current token is the presented token, whose
\* stored status is ACTIVE, and the codec verifies the token (signature
\* valid, expiry not passed); a request answered without suspending is
\* never valid; the decision does not change while the request is in
\* flight, and valid = true is answered only to a request decided OK.
C6_ValidOnlyIfCurrentActiveVerified ==
    [][\A w \in Workers :
         /\ \A key \in PresentableTokens :
              \A dbLicense \in FirstRow(getLicenseByKey(key)) :
                ValidateRow(w, MaxRequests, key, dbLicense) =>
                  /\ pc'[w] = "done" => ~resp'[w].ok
                  /\ req'[w].reason = "OK" =>
                       /\ \E id \in CurrentOf(key) : licenses[id] = dbLicense
                       /\ dbLicense.status = "ACTIVE"
                       /\ key.form = "jwt"
                       /\ key.key = LICENSE_SIGNING_SECRET
                       /\ key.payload.expiry >= now
         /\ (pc[w] \in {"v_update", "v_event"} /\ pc'[w] # "done")
              => req'[w] = req[w]
         /\ (pc[w] \in {"v_update", "v_event"} /\ pc'[w] = "done")
              => (resp'[w].ok <=> (pc[w] = "v_event" /\ req[w].reason = "OK"))]_vars

\* the current token of an ACTIVE license was validated and found valid
C6_Witness ==
    \E w \in Workers :
        /\ pc[w] = "done"
        /\ resp[w].op = "validate"
        /\ resp[w].ok
        /\ resp[w].reason = "OK"
        /\ \E id \in CurrentOf(req[w].licenseKey) : licenses[id].status = "ACTIVE"

\* C7: a validate request with a token that is the current token of no
\* stored license is answered at once with valid = false and reason
\* NOT_FOUND, whatever the codec makes of the token, and changes no license.
C7_UnknownTokenNotFound ==
    [][\A w \in Workers :
         \A key \in PresentableTokens :
           (ValidateWith(w, MaxRequests, key) /\ CurrentOf(key) = {})
             => /\ pc'[w] = "done"
                /\ ~resp'[w].ok
                /\ resp'[w].reason = "NOT_FOUND"
                /\ licenses' = licenses]_vars

\* a token the codec verifies as OK, replaced by an extension and so the
\* current token of no license, was answered NOT_FOUND
C7_Witness ==
    \E w \in Workers :
        /\ pc[w] = "done"
        /\ resp[w].op = "validate"
        /\ resp[w].reason = "NOT_FOUND"
        /\ CurrentOf(req[w].licenseKey) = {}
        /\ verifyLicenseKey(req[w].licenseKey, LICENSE_SIGNING_SECRET, now).valid

\* C8: once a license has been extended, a validate or activate request
\* that presents a token handed out for that license earlier (one that is
\* no longer its current token) is never answered valid = true or
\* activated = true.
C8_PreviousTokenRefused ==
    \A w \in SeqWorkers :
        (pc[w] = "done" /\ resp[w].op \in {"validate", "activate"} /\ resp[w].ok)
          => ~\E i \in issued :
                 /\ i.token = req[w].licenseKey
                 /\ licenses[i.id].licenseKey # i.token

\* C9: a validate request that finds an ACTIVE license under a current
\* token whose expiry is before now is decided EXPIRED and suspends at the
\* status write without having answered; the write stores status EXPIRED
\* for that license, still without an answer; the answer that follows is
\* valid = false with reason EXPIRED.
C9_ExpiredTokenPersistsExpired ==
    [][\A w \in Workers :
         /\ \A key \in PresentableTokens :
              \A dbLicense \in getLicenseByKey(key) :
                (ValidateRow(w, MaxRequests, key, dbLicense)
                    /\ dbLicense.status = "ACTIVE"
                    /\ key.payload.expiry < now)
                  => /\ pc'[w] = "v_update"
                     /\ req'[w].reason = "EXPIRED"
                     /\ req'[w].dbLicense = dbLicense
                     /\ resp'[w] = NoResp
         /\ (pc[w] = "v_update" /\ pc'[w] # "v_update")
              => /\ licenses'[req[w].dbLicense.id].status = "EXPIRED"
                 /\ pc'[w] = "v_event"
                 /\ resp'[w] = NoResp
         /\ (pc[w] = "v_event" /\ pc'[w] # "v_event" /\ req[w].reason = "EXPIRED")
              => /\ pc'[w] = "done"
                 /\ ~resp'[w].ok
                 /\ resp'[w].reason = "EXPIRED"]_vars

\* a validate request read an ACTIVE license with an expired token, has
\* written the status and is about to answer EXPIRED
C9_Witness ==
    \E w \in Workers :
        /\ pc[w] = "v_event"
        /\ req[w].dbLicense.status = "ACTIVE"
        /\ req[w].verifyResult.reason = "EXPIRED"
        /\ req[w].reason = "EXPIRED"
        /\ licenses[req[w].dbLicense.id].status = "EXPIRED"

\* a validate request, served alone, found its token expired and answers
ExpiredValidateReturns(w) ==
    /\ pc[w] = "v_event"
    /\ pc'[w] = "done"
    /\ ~req[w].verifyResult.valid
    /\ req[w].verifyResult.reason = "EXPIRED"

\* C10 as stated: when a validate request that read a license with stored
\* status ACTIVE or REVOKED and an expired current token returns, the
\* stored status is EXPIRED.
C10_LazyExpiryFromAnyStatus ==
    [][\A w \in SeqWorkers :
         (ExpiredValidateReturns(w)
             /\ req[w].dbLicense.status \in {"ACTIVE", "REVOKED"})
           => licenses'[req[w].dbLicense.id].status = "EXPIRED"]_vars

\* C10, amended: with requests served one after another, when a validate
\* request that found an expired current token returns, a license read as
\* ACTIVE has stored status EXPIRED and the answer is EXPIRED; a license
\* read as REVOKED still has stored status REVOKED and the answer is
\* REVOKED; a license read as EXPIRED stays EXPIRED.  The answer is never
\* valid.
C10_LazyExpiryFromActiveOnly ==
    [][\A w \in SeqWorkers :
         ExpiredValidateReturns(w) =>
           LET id == req[w].dbLicense.id
               was == req[w].dbLicense.status
           IN /\ ~resp'[w].ok
              /\ was = "ACTIVE" =>
                   licenses'[id].status = "EXPIRED" /\ resp'[w].reason = "EXPIRED"
              /\ was = "REVOKED" =>
                   licenses'[id].status = "REVOKED" /\ resp'[w].reason = "REVOKED"
              /\ was = "EXPIRED" =>
                   licenses'[id].status = "EXPIRED" /\ resp'[w].reason = "EXPIRED"]_vars

\* a validate request read a REVOKED license with an expired token and is
\* about to answer REVOKED, the stored status still REVOKED
C10_Witness ==
    \E w \in SeqWorkers :
        /\ pc[w] = "v_event"
        /\ req[w].dbLicense.status = "REVOKED"
        /\ req[w].verifyResult.reason = "EXPIRED"
        /\ req[w].reason = "REVOKED"
        /\ licenses[req[w].dbLicense.id].status = "REVOKED"

(***************************************************************************)
(* Order of the checks of validate.                                        *)
(***************************************************************************)
\* the reason a validate request is answered with, from the request as it
\* stands when the handler answers
Answered(w, reason) ==
    /\ pc[w] = "v_event"
    /\ pc'[w] = "done"
    /\ req[w].reason = reason
    /\ resp'[w].reason = reason

\* C11 as stated: for a token found in the store, a codec failure is the
\* reported reason whatever the stored status, so REVOKED is reported only
\* when the codec outcome is OK.
C11_CodecFailureReportedFirst ==
    [][\A w \in Workers :
         \A key \in PresentableTokens :
           \A dbLicense \in getLicenseByKey(key) :
             LET verifyResult == verifyLicenseKey(key, LICENSE_SIGNING_SECRET, now)
             IN (ValidateRow(w, MaxRequests, key, dbLicense) /\ ~verifyResult.valid)
                  => req'[w].reason = verifyResult.reason]_vars

\* C11, amended: for a token found in the store validate reports the first
\* failing check in the order (1) stored status REVOKED, (2) stored status
\* EXPIRED or codec outcome EXPIRED, (3) any other codec failure; REVOKED
\* is reported whatever the codec outcome, and the reason decided when the
\* row was read is the reason answered.
C11_RevokedReportedFirst ==
    [][\A w \in Workers :
         /\ \A key \in PresentableTokens :
              \A dbLicense \in getLicenseByKey(key) :
                LET verifyResult ==
                        verifyLicenseKey(key, LICENSE_SIGNING_SECRET, now)
                IN ValidateRow(w, MaxRequests, key, dbLicense) =>
                     /\ pc'[w] # "done"
                     /\ req'[w].reason =
                          CASE dbLicense.status = "REVOKED" -> "REVOKED"
                            [] dbLicense.status = "EXPIRED" -> "EXPIRED"
                            [] OTHER -> verifyResult.reason
         /\ (pc[w] = "v_event" /\ pc'[w] = "done")
              => Answered(w, req[w].reason)]_vars

\* a validate request read a REVOKED license whose token the codec finds
\* EXPIRED, and decided REVOKED
C11_Witness ==
    \E w \in Workers :
        /\ pc[w] = "v_event"
        /\ req[w].op = "validate"
        /\ req[w].dbLicense.status = "REVOKED"
        /\ ~req[w].verifyResult.valid
        /\ req[w].verifyResult.reason = "EXPIRED"
        /\ req[w].reason = "REVOKED"

(***************************************************************************)
(* Extension.                                                              *)
(***************************************************************************)
\* an extend request the route accepts as far as its body goes: the
\* license exists and the new expiry passes the schema
Extendable(id, newExpiry) ==
    id \in LicenseIds /\ ExtendExpiryAccepted(newExpiry, now)

\* C12 as stated: an extend request with reactivate = false on a license
\* whose stored status is REVOKED is not refused.
C12_RevokedExtendSucceeds ==
    [][\A w \in Workers :
         \A id \in LicenseIds, newExpiry \in ExtendExpiries, actor \in Creators :
           (ExtendWith(w, MaxRequests, id, newExpiry, FALSE, actor)
               /\ Extendable(id, newExpiry)
               /\ licenses[id].status = "REVOKED")
             => ~(pc'[w] = "done" /\ ~resp'[w].ok)]_vars

\* C12, amended: an extend request with reactivate = false on a license
\* whose stored status is REVOKED is refused with status code 400 before
\* any token is generated: the stored status, expiry and token are
\* unchanged, no Event is written and no token is handed out.
C12_RevokedExtendRefused ==
    [][\A w \in Workers :
         \A id \in LicenseIds, newExpiry \in ExtendExpiries, actor \in Creators :
           (ExtendWith(w, MaxRequests, id, newExpiry, FALSE, actor)
               /\ licenses[id].status = "REVOKED")
             => /\ pc'[w] = "done"
                /\ ~resp'[w].ok
                /\ resp'[w].code = 400
                /\ licenses' = licenses
                /\ events' = events
                /\ issued' = issued]_vars

\* an extend request with reactivate = false and an acceptable new expiry
\* was refused for a license that is REVOKED
C12_Witness ==
    \E w \in Workers :
        /\ pc[w] = "done"
        /\ resp[w].op = "extend"
        /\ resp[w].code = 400
        /\ resp[w].reason = "Cannot extend revoked license without reactivation"
        /\ ~req[w].reactivate
        /\ Extendable(req[w].id, req[w].newExpiry)
        /\ licenses[req[w].id].status = "REVOKED"
        /\ licenses[req[w].id].expiry # req[w].newExpiry

\* C13: with requests served one after another, an extend request with
\* reactivate true (or omitted) for an existing license and a new expiry
\* the schema accepts is answered 200 whatever the stored status was; when
\* it returns the stored status is ACTIVE, the stored expiry is the
\* requested one, and the stored token is a token signed by the server
\* during the request whose payload carries the license's tenant, its
\* modules and the new expiry; that token is the one handed out.
C13_ExtendReactivates ==
    \A w \in SeqWorkers :
        (pc[w] = "done" /\ resp[w].op = "extend" /\ req[w].reactivate
            /\ Extendable(req[w].id, req[w].newExpiry))
          => LET license == licenses[req[w].id]
             IN /\ resp[w].ok
                /\ resp[w].code = 200
                /\ license.status = "ACTIVE"
                /\ license.expiry = req[w].newExpiry
                /\ license.licenseKey.form = "jwt"
                /\ license.licenseKey.key = LICENSE_SIGNING_SECRET
                /\ license.licenseKey.iat <= now
                /\ license.licenseKey.payload =
                       [tenantId |-> license.tenantId,
                        modules |-> license.modules,
                        expiry |-> req[w].newExpiry]
                /\ [id |-> license.id, token |-> license.licenseKey] \in issued
                /\ resp[w].license = license

\* a REVOKED license was extended with reactivate = true to an expiry other
\* than the one it was issued with, and is ACTIVE under a new token
C13_Witness ==
    \E w \in SeqWorkers :
        /\ pc[w] = "done"
        /\ resp[w].op = "extend"
        /\ resp[w].ok
        /\ req[w].reactivate
        /\ events[Len(events)].message.a = "License reactivated."
        /\ licenses[req[w].id].status = "ACTIVE"
        /\ licenses[req[w].id].expiry = req[w].newExpiry
        /\ \E i \in issued :
             /\ i.id = req[w].id
             /\ i.token # licenses[req[w].id].licenseKey
             /\ i.token.payload.expiry # req[w].newExpiry

(***************************************************************************)
(* Audit events.                                                           *)
(***************************************************************************)
\* this step appends exactly one Event, of the given license, kind and actor
AppendsEvent(licenseId, eventType, actor) ==
    /\ Len(events') = Len(events) + 1
    /\ SubSeq(events', 1, Len(events)) = events
    /\ events'[Len(events')].licenseId = licenseId
    /\ events'[Len(events')].eventType = eventType
    /\ events'[Len(events')].actor = actor

\* C14 as stated: no validate call returns without having appended an
\* Event, whatever its outcome.
C14_EveryValidateWritesEvent ==
    [][\A w \in Workers :
         \A key \in PresentableTokens :
           ValidateWith(w, MaxRequests, key)
             => ~(pc'[w] = "done" /\ events' = events)]_vars

\* C14, amended: a validate call for a token found in the store appends
\* exactly one Event, with actor "system", as its last step before it
\* answers; a validate call answered NOT_FOUND appends none.  A status
\* change or an extension the route accepts appends exactly one Event,
\* with the caller's identity as actor, as its last step; one the route
\* refuses (unknown license, rejected expiry, REVOKED without reactivation)
\* appends none.  No other step of these calls writes an Event.
C14_OneEventPerDecidedCall ==
    [][\A w \in Workers :
         /\ \A key \in PresentableTokens :
              ValidateWith(w, MaxRequests, key) =>
                /\ events' = events
                /\ (pc'[w] = "done") <=> (CurrentOf(key) = {})
         /\ \A id \in 1..MaxLicenses, status \in AdminStatuses, actor \in Creators :
              StatusWith(w, MaxRequests, id, status, actor) =>
                /\ events' = events
                /\ (pc'[w] = "done") <=> (id \notin LicenseIds)
         /\ \A id \in 1..MaxLicenses, newExpiry \in ExtendExpiries,
               reactivate \in BOOLEAN, actor \in Creators :
              ExtendWith(w, MaxRequests, id, newExpiry, reactivate, actor) =>
                /\ events' = events
                /\ (pc'[w] = "done") <=>
                     \/ ~Extendable(id, newExpiry)
                     \/ (licenses[id].status = "REVOKED" /\ ~reactivate)
         /\ (pc[w] \in {"v_update", "s_update", "e_read", "e_update"}
                /\ pc'[w] # pc[w])
              => events' = events /\ pc'[w] # "done"
         /\ (pc[w] = "v_event" /\ pc'[w] # pc[w])
              => /\ pc'[w] = "done"
                 /\ AppendsEvent(req[w].dbLicense.id, "VALIDATED", "system")
         /\ (pc[w] \in {"s_event", "e_event"} /\ pc'[w] # pc[w])
              => /\ pc'[w] = "done"
                 /\ AppendsEvent(req[w].id, "STATUS_CHANGED", req[w].actor)]_vars

\* a validate call and an administrative call ran side by side and both
\* have returned: each left its one Event, and a later validate call with
\* a token of no license would leave none
C14_Witness ==
    \E w, v \in Workers :
        /\ pc[w] = "done"
        /\ pc[v] = "done"
        /\ resp[w].op = "validate"
        /\ resp[w].reason # "NOT_FOUND"
        /\ resp[v].op \in {"status", "extend"}
        /\ resp[v].ok
        /\ Len(events) = Len(licenses) + Cardinality({w, v})
        /\ \E i, j \in 1..Len(events) :
             /\ events[i].eventType = "VALIDATED"
             /\ events[i].actor = "system"
             /\ events[j].eventType = "STATUS_CHANGED"
             /\ events[j].actor \in Creators

\* the activate handler returns early for this row and codec result
PreconditionFails(dbLicense, verifyResult) ==
    \/ dbLicense = NoLicense
    \/ dbLicense.status # "ACTIVE"
    \/ ~verifyResult.valid

C16_FailedAdmitMutatesNothing ==
    [][\A w \in Workers :
         \A key \in PresentableTokens, hw \in HardwareIds :
           \A dbLicense \in FirstRow(getLicenseByKey(key)) :
             LET verifyResult == verifyLicenseKey(key, LICENSE_SIGNING_SECRET, now)
             IN (ActivateRow(w, MaxRequests, key, hw, dbLicense)
                    /\ PreconditionFails(dbLicense, verifyResult))
                  => /\ pc'[w] = "done"
                     /\ ~resp'[w].ok
                     /\ resp'[w].reason =
                          CASE dbLicense = NoLicense -> "NOT_FOUND"
                            [] dbLicense.status = "REVOKED" -> "REVOKED"
                            [] dbLicense.status = "EXPIRED" -> "EXPIRED"
                            [] OTHER -> verifyResult.reason
                     /\ activations' = activations
                     /\ licenses' = licenses
                     /\ events' = events
                     /\ issued' = issued]_vars

\* an ACTIVE license whose token has expired refused an activate call with
\* EXPIRED and is still ACTIVE, without any Activation row
C16_Witness ==
    \E w \in Workers :
        /\ pc[w] = "done"
        /\ resp[w].op = "activate"
        /\ resp[w].reason = "EXPIRED"
        /\ \E id \in CurrentOf(req[w].licenseKey) :
             /\ licenses[id].status = "ACTIVE"
             /\ licenses[id].licenseKey.payload.expiry < now
             /\ ActivationCount(id) = 0

\* the Events of one license, oldest first
EventsOf(table, licenseId) ==
    SelectSeq(table, LAMBDA e : e.licenseId = licenseId)

\* table t extends table s: every row of s is still there, unchanged and in
\* its place
Extends(t, s) ==
    Len(t) >= Len(s) /\ SubSeq(t, 1, Len(s)) = s

\* C17: no step of any operation modifies or removes an Event: after every
\* step the Event table extends the table before the step, so each
\* license's Events only grow and every earlier Event keeps its license,
\* kind, message and actor.
C17_EventsAppendOnly ==
    [][/\ Extends(events', events)
       /\ \A id \in LicenseIds :
            Extends(EventsOf(events', id), EventsOf(events, id))]_vars

\* a license has its CREATED Event first and two later Events of other
\* kinds after it
C17_Witness ==
    \E id \in LicenseIds :
        LET mine == EventsOf(events, id)
        IN /\ Len(mine) >= 3
           /\ mine[1] = CreatedEvent(licenses[id])
           /\ \E i, j \in 2..Len(mine) :
                /\ i < j
                /\ mine[i].eventType = "STATUS_CHANGED"
                /\ mine[j].eventType = "VALIDATED"

\* the Event of a completed status change of license id to status
StatusChangedTo(e, id, status) ==
    /\ e.licenseId = id
    /\ e.eventType = "STATUS_CHANGED"
    /\ e.message.text = "License status changed"
    /\ e.message.b = status

\* C18: no step of any operation (revoke, un-revoke, lazy expiry, extend,
\* validate, activate) removes or changes an Activation row: after every
\* step the Activation table extends the table before the step, and no
\* license's activation count goes down.
C18_ActivationsNeverDeleted ==
    [][/\ Extends(activations', activations)
       /\ \A id \in LicenseIds :
            ActivationCount(id)' >= ActivationCount(id)]_vars

\* a hardware id was admitted, then the license was revoked, then it was
\* set ACTIVE again: the row is still there and still counts
C18_Witness ==
    \E id \in LicenseIds :
        /\ licenses[id].status = "ACTIVE"
        /\ ActivationCount(id) = 1
        /\ \E i, j, k \in 1..Len(events) :
             /\ i < j
             /\ j < k
             /\ ActivatedEvent(events[i])
             /\ events[i].licenseId = id
             /\ Bound(id, events[i].message.a)
             /\ StatusChangedTo(events[j], id, "REVOKED")
             /\ StatusChangedTo(events[k], id, "ACTIVE")

(***************************************************************************)
(* Token codec.                                                            *)
(***************************************************************************)
\* C19: for every tenant id, non-empty module set and expiry, a token
\* issued with key K and verified with the same key K at a time that is
\* not after the expiry is found valid with reason OK, and the payload
\* returned has the tenant id, the modules and the expiry it was issued
\* with.
C19_VerifyOfIssueIsOk ==
    (codec.stage = "verified" /\ codec.damage = "none"
        /\ codec.verifyKey = codec.key /\ codec.payload.expiry >= codec.at)
      => /\ codec.result.valid
         /\ codec.result.reason = "OK"
         /\ codec.result.payload.tenantId = codec.payload.tenantId
         /\ codec.result.payload.modules = codec.payload.modules
         /\ codec.result.payload.expiry = codec.payload.expiry

\* a token for every module, issued with an expiry still ahead,
\* was verified with its own key and found OK
C19_Witness ==
    /\ codec.stage = "verified"
    /\ codec.damage = "none"
    /\ codec.verifyKey = codec.key
    /\ codec.payload.modules = AVAILABLE_MODULES
    /\ codec.payload.expiry > codec.at
    /\ codec.result.valid
    /\ codec.result.payload = codec.payload

\* C20: a token issued with key K and verified with a different key K' is
\* answered valid = false with reason INVALID_SIGNATURE and no payload,
\* whether its expiry has passed or not.
C20_OtherKeyIsInvalidSignature ==
    (codec.stage = "verified" /\ codec.damage = "none"
        /\ codec.verifyKey # codec.key)
      => /\ ~codec.result.valid
         /\ codec.result.reason = "INVALID_SIGNATURE"
         /\ codec.result.payload = NoPayload

\* a token whose expiry has passed was verified with another key than the
\* one it was issued with, and found INVALID_SIGNATURE, not EXPIRED
C20_Witness ==
    /\ codec.stage = "verified"
    /\ codec.damage = "none"
    /\ codec.verifyKey # codec.key
    /\ codec.payload.expiry < codec.at
    /\ codec.result.reason = "INVALID_SIGNATURE"

Malformations ==
    {"cut-all", "cut-header", "cut-payload", "cut-at-signature",
     "payload-junk"}

\* C21 as stated: every token cut short at any position, or given another
\* payload part, verifies as MALFORMED.
C21_CorruptedIsMalformed ==
    (codec.stage = "verified" /\ codec.damage # "none")
      => codec.result.reason = "MALFORMED"

\* C21: a corrupted token never verifies as OK or EXPIRED, with either
\* key.  It is MALFORMED when the string is empty, has fewer than three
\* parts, has an empty signature part or a payload part that does not
\* decode; it is INVALID_SIGNATURE when it still has three decodable
\* parts, that is when it was cut inside the signature or given another
\* payload part that decodes to claims.
C21_CorruptedIsRefused ==
    (codec.stage = "verified" /\ codec.damage # "none")
      => /\ ~codec.result.valid
         /\ codec.result.payload = NoPayload
         /\ codec.result.reason =
              IF codec.damage \in Malformations
              THEN "MALFORMED" ELSE "INVALID_SIGNATURE"

\* a token issued with the server's key was given a payload part with a
\* later expiry, verified with the same key after the original expiry,
\* and refused as INVALID_SIGNATURE
C21_Witness ==
    /\ codec.stage = "verified"
    /\ codec.damage = "payload-claims"
    /\ codec.verifyKey = codec.key
    /\ codec.token.payload.expiry > codec.payload.expiry
    /\ codec.result.reason = "INVALID_SIGNATURE"

\* C22: verification always returns, with exactly one of the four reasons
\* OK, EXPIRED, INVALID_SIGNATURE and MALFORMED; valid is true exactly
\* with OK; every library error other than the signature mismatch is
\* MALFORMED; and a payload comes only with OK or EXPIRED.
C22_VerifyIsTotal ==
    codec.stage = "verified"
      => LET error == jwtVerifyError(codec.token, codec.verifyKey)
         IN /\ codec.result.reason
                 \in {"OK", "EXPIRED", "INVALID_SIGNATURE", "MALFORMED"}
            /\ codec.result.valid <=> codec.result.reason = "OK"
            /\ (error # NoError /\ error.message # "invalid signature")
                 => codec.result.reason = "MALFORMED"
            /\ codec.result.payload # NoPayload
                 => codec.result.reason \in {"OK", "EXPIRED"}

\* a token whose payload part does not decode makes the library throw a
\* SyntaxError, which is no JsonWebTokenError, and comes back as MALFORMED
C22_Witness ==
    /\ codec.stage = "verified"
    /\ codec.damage = "payload-junk"
    /\ jwtVerifyError(codec.token, codec.verifyKey).name = "SyntaxError"
    /\ codec.result.reason = "MALFORMED"

(***************************************************************************)
(* Issuance.                                                               *)
(***************************************************************************)
CreatedEvents(id) ==
    {i \in 1..Len(events) :
        events[i].licenseId = id /\ events[i].eventType = "CREATED"}

\* C23: an issue request the route accepts adds exactly one row to the
\* licenses table, with status ACTIVE, the requested tenant, modules and
\* expiry, and a token signed by the server whose payload carries these
\* three; it then appends exactly one CREATED Event for that license with
\* the creator as actor and answers 201 with the row.  Between the two
\* steps the license has no CREATED Event, afterwards exactly one.
C23_IssueCreatesActiveLicense ==
    [][\A w \in Workers :
         /\ \A tenantId \in TenantIds, modules \in ModuleSets,
               expiry \in Expiries, maxActivations \in 1..MaxQuota,
               createdBy \in Creators :
              IssueWith(w, MaxRequests, tenantId, modules, expiry,
                        maxActivations, createdBy) =>
                /\ pc'[w] = "i_event"
                /\ Len(licenses') = Len(licenses) + 1
                /\ SubSeq(licenses', 1, Len(licenses)) = licenses
                /\ LET created == licenses'[Len(licenses')]
                   IN /\ created.id = Len(licenses')
                      /\ created.status = "ACTIVE"
                      /\ created.tenantId = tenantId
                      /\ created.modules = modules
                      /\ created.expiry = expiry
                      /\ created.createdBy = createdBy
                      /\ created.licenseKey.form = "jwt"
                      /\ created.licenseKey.key = LICENSE_SIGNING_SECRET
                      /\ created.licenseKey.payload =
                           [tenantId |-> tenantId, modules |-> modules,
                            expiry |-> expiry]
                      /\ req'[w].dbLicense = created
                /\ events' = events
                /\ \A id \in {Len(licenses) + 1} : CreatedEvents(id)' = {}
         /\ (pc[w] = "i_event" /\ pc'[w] # pc[w])
              => /\ pc'[w] = "done"
                 /\ resp'[w].code = 201
                 /\ resp'[w].license = req[w].dbLicense
                 /\ licenses' = licenses
                 /\ AppendsEvent(req[w].dbLicense.id, "CREATED",
                                 req[w].dbLicense.createdBy)
                 /\ \A id \in {req[w].dbLicense.id} :
                      CreatedEvents(id)' = {Len(events')}]_vars

\* an issue request has been answered 201: the second license is stored
\* ACTIVE with a token of its own expiry, and has its one CREATED Event
C23_Witness ==
    \E w \in Workers :
        /\ pc[w] = "done"
        /\ resp[w].op = "issue"
        /\ resp[w].code = 201
        /\ resp[w].license.id = Len(licenses)
        /\ Len(licenses) > 1
        /\ licenses[Len(licenses)].status = "ACTIVE"
        /\ licenses[Len(licenses)].licenseKey.payload.expiry = MaxTime
        /\ Cardinality(CreatedEvents(Len(licenses))) = 1

(***************************************************************************)
(* Administrative status change.                                           *)
(***************************************************************************)
\* C24: a status-change request for an existing license is never refused,
\* whatever the stored status and the requested one (ACTIVE or REVOKED).
\* Its update sets the stored status of that license to the requested
\* status and changes nothing else: expiry, token and every other column
\* of the row, every other row and the Activation rows stay as they were.
\* Its last step appends one STATUS_CHANGED Event for the license, naming
\* the status the request read and the status it wrote, with the caller
\* as actor, and answers 200.
C24_StatusChangeAlwaysPermitted ==
    [][\A w \in Workers :
         /\ \A id \in LicenseIds, status \in AdminStatuses, actor \in Creators :
              StatusWith(w, MaxRequests, id, status, actor) =>
                /\ pc'[w] = "s_update"
                /\ req'[w].dbLicense = licenses[id]
                /\ licenses' = licenses
                /\ activations' = activations
                /\ events' = events
         /\ (pc[w] = "s_update" /\ pc'[w] # pc[w]) =>
              /\ pc'[w] = "s_event"
              /\ Len(licenses') = Len(licenses)
              /\ licenses'[req[w].id].status = req[w].status
              /\ [licenses'[req[w].id] EXCEPT !.status = ""]
                   = [licenses[req[w].id] EXCEPT !.status = ""]
              /\ \A other \in LicenseIds \ {req[w].id} :
                   licenses'[other] = licenses[other]
              /\ activations' = activations
              /\ events' = events
         /\ (pc[w] = "s_event" /\ pc'[w] # pc[w]) =>
              /\ pc'[w] = "done"
              /\ resp'[w].code = 200
              /\ resp'[w].ok
              /\ AppendsEvent(req[w].id, "STATUS_CHANGED", req[w].actor)
              /\ events'[Len(events')].message.a = req[w].dbLicense.status
              /\ events'[Len(events')].message.b = req[w].status
              /\ licenses' = licenses
              /\ activations' = activations]_vars

\* a license with one bound hardware id has been revoked: the request is
\* answered 200, the status is REVOKED, the Activation row is still there
\* and the newest Event names ACTIVE and REVOKED
C24_Witness ==
    \E w \in Workers :
        /\ pc[w] = "done"
        /\ resp[w].op = "status"
        /\ resp[w].ok
        /\ req[w].status = "REVOKED"
        /\ licenses[req[w].id].status = "REVOKED"
        /\ ActivationCount(req[w].id) = 1
        /\ events[Len(events)].eventType = "STATUS_CHANGED"
        /\ events[Len(events)].message.a = "ACTIVE"
        /\ events[Len(events)].message.b = "REVOKED"

(***************************************************************************)
(* Recovery.                                                               *)
(***************************************************************************)
\* expiries an administrator can ask for, one of them later than every
\* expiry in the store
RecoveryExpiries == 0..(MaxTime + 1)

\* the licenses table once an extend request for license id, with
\* reactivate true, has been served alone at the present clock
ExtendedAlone(id, newExpiry) ==
    LET existingLicense == getLicenseById(id)
        newLicenseKey ==
            generateLicenseKey([tenantId |-> existingLicense.tenantId,
                                modules |-> existingLicense.modules,
                                expiry |-> newExpiry],
                               LICENSE_SIGNING_SECRET, now)
    IN extendLicense(id, newExpiry, newLicenseKey,
                     extendLicenseStatus(existingLicense.status, TRUE))

\* the reasons a validate request presenting key can be answered with
\* when the licenses table is table
ValidateAnswers(table, key) ==
    {ValidateDecision(dbLicense,
                      verifyLicenseKey(key, LICENSE_SIGNING_SECRET, now)) :
        dbLicense \in FirstRow({l \in Range(table) : l.licenseKey = key})}

\* the route accepts the extension, and after it the license is ACTIVE
\* and its token validates as OK
Recovers(id, newExpiry) ==
    /\ ExtendExpiryAccepted(newExpiry, now)
    /\ ~RevokedWithoutReactivation(getLicenseById(id), TRUE)
    /\ LET table == ExtendedAlone(id, newExpiry)
       IN /\ table[id].status = "ACTIVE"
          /\ ValidateAnswers(table, table[id].licenseKey) = {"OK"}

\* C25: in every reachable state and for every license, whatever its
\* stored status and its activations, there is an extend request (with
\* reactivate true) that the route accepts and after which the stored
\* status is ACTIVE and a validate of the current token is answered OK.
C25_NoTerminalStatus ==
    \A id \in LicenseIds : \E newExpiry \in RecoveryExpiries :
        Recovers(id, newExpiry)

\* a license was found EXPIRED by a validate, then extended, and a
\* validate of its new token has just been answered OK
C25_Witness ==
    \E w \in SeqWorkers :
        /\ pc[w] = "done"
        /\ resp[w].op = "validate"
        /\ resp[w].reason = "OK"
        /\ \E id \in CurrentOf(req[w].licenseKey) :
             /\ licenses[id].status = "ACTIVE"
             /\ \E i, j \in 1..Len(events) :
                  /\ i < j
                  /\ events[i].licenseId = id
                  /\ events[i].eventType = "VALIDATED"
                  /\ events[i].message.a = "EXPIRED"
                  /\ events[j].licenseId = id
                  /\ events[j].eventType = "STATUS_CHANGED"
                  /\ events[j].message.n > 0

(***************************************************************************)
(* Independence of licenses.                                               *)
(***************************************************************************)
\* everything the store holds about license id
LicenseView(id) ==
    <<licenses[id], getLicenseActivations(id), EventsOf(events, id)>>

\* the licenses a token was handed out for
IssuedFor(key) == {i.id : i \in {x \in issued : x.token = key}}

\* the licenses the request of frame r is addressed to: the one it names,
\* the one it creates, or the one its token was handed out for
AddressedTo(r) ==
    CASE r.op \in {"status", "extend"} -> {r.id}
      [] r.op = "issue" -> {r.dbLicense.id}
      [] r.op \in {"validate", "activate"} -> IssuedFor(r.licenseKey)
      [] OTHER -> {}

\* worker w takes this step
Moved(w) == pc'[w] # pc[w] \/ req'[w] # req[w] \/ resp'[w] # resp[w]

\* C26: a step of a request addressed to license A changes nothing the
\* store holds about any other license B: B's row (status, expiry, token),
\* B's Activation rows and B's Events are the same after the step, under
\* every interleaving.  A token handed out for A addresses A.
C26_OtherLicensesUntouched ==
    [][\A w \in Workers :
         Moved(w) =>
           \A A \in AddressedTo(IF Idle(w) THEN req'[w] ELSE req[w]) :
             \A B \in LicenseIds \ {A} :
               LicenseView(B)' = LicenseView(B)]_vars

(***************************************************************************)
(* Storage failures.                                                       *)
(***************************************************************************)
TokenReasons == {"OK", "EXPIRED", "INVALID_SIGNATURE", "MALFORMED"}

\* C27: when a storage call of a validate or activate request fails, the
\* request is answered at once (no storage call is made again) with an
\* internal-error outcome whose reason is none of the token reasons OK,
\* EXPIRED, INVALID_SIGNATURE and MALFORMED, and the failing step writes
\* nothing.
C27_StorageFailureIsInternalError ==
    [][\A w \in SeqWorkers :
         (resp'[w].code = 500 /\ (Idle(w) => started' # started))
           => /\ pc'[w] = "done"
              /\ resp'[w].reason \notin TokenReasons
              /\ ~resp'[w].ok
              /\ licenses' = licenses
              /\ activations' = activations
              /\ events' = events]_vars

\* hardware id h holds an Activation row of license id whose admission
\* Event was never written
Orphaned(id, h) ==
    /\ Bound(id, h)
    /\ ~\E i \in 1..Len(events) :
          /\ ActivatedEvent(events[i])
          /\ events[i].licenseId = id
          /\ events[i].message.a = h

\* C28: with requests served one after another, an admit abandoned after
\* its Activation row was written and before its Event was written leaves
\* the row in place and the licenses table as it was.  Every later admit
\* treats the row like any other: a hardware id is ALREADY_ACTIVATED
\* (success) exactly when it holds a row, with or without Event; the count
\* compared with maxActivations is the count of all rows of the license;
\* and no license ever has more rows than maxActivations.
C28_PartialAdmitIsHarmless ==
    [][\A w \in SeqWorkers :
         /\ (pc[w] = "a_event" /\ req[w].reason = "OK" /\ resp'[w].code = 500)
              => /\ licenses' = licenses
                 /\ activations' = activations
                 /\ \A id \in {req[w].dbLicense.id}, h \in {req[w].hardwareId} :
                      Orphaned(id, h)'
         /\ (pc[w] = "a_existing" /\ pc'[w] \in {"a_event", "a_count"})
              => /\ (pc'[w] = "a_event")
                      <=> Bound(req[w].dbLicense.id, req[w].hardwareId)
                 /\ (pc'[w] = "a_event")
                      => req'[w].reason = "ALREADY_ACTIVATED"
         /\ (pc[w] = "a_count" /\ pc'[w] \in {"a_event", "a_insert"})
              => /\ req'[w].currentActivations
                      = ActivationCount(req[w].dbLicense.id)
                 /\ (pc'[w] = "a_event")
                      <=> ActivationCount(req[w].dbLicense.id)
                            >= licenses[req[w].dbLicense.id].maxActivations
         /\ (pc[w] = "a_event" /\ resp'[w].code = 200
                /\ req[w].reason = "ALREADY_ACTIVATED")
              => resp'[w].ok /\ resp'[w].reason = "ALREADY_ACTIVATED"
         /\ \A id \in 1..Len(licenses') :
              ActivationCount(id)' <= licenses'[id].maxActivations]_vars

\* an admit was abandoned between its row and its Event; the same hardware
\* id came back and was answered ALREADY_ACTIVATED, and the license, whose
\* quota the row fills, has no more rows than maxActivations
C28_Witness ==
    \E w \in SeqWorkers :
        /\ pc[w] = "done"
        /\ resp[w].op = "activate"
        /\ resp[w].ok
        /\ resp[w].reason = "ALREADY_ACTIVATED"
        /\ \E id \in CurrentOf(req[w].licenseKey) :
             /\ Orphaned(id, req[w].hardwareId)
             /\ ActivationCount(id) = licenses[id].maxActivations

(***************************************************************************)
(* Order of the checks of activate.                                        *)
(***************************************************************************)
\* the request of w is refused with this reason before any storage write
Refused(w, reason) ==
    /\ pc'[w] = "done"
    /\ ~resp'[w].ok
    /\ resp'[w].reason = reason
    /\ activations' = activations
    /\ events' = events

\* C29: activate tests its preconditions in the order not found, REVOKED,
\* EXPIRED, other codec failure.  A token that is the current token of no
\* license is refused NOT_FOUND whatever the codec says of it; a license
\* found with stored status REVOKED is refused REVOKED also when its token
\* is expired; otherwise a stored status EXPIRED or a codec outcome EXPIRED
\* is refused EXPIRED; otherwise any other codec failure is refused with
\* the codec's reason; otherwise the request goes on to the hardware check.
C29_AdmitPreconditionOrder ==
    [][\A w \in Workers :
         \A key \in PresentableTokens, hw \in HardwareIds :
           \A dbLicense \in FirstRow(getLicenseByKey(key)) :
             LET verifyResult ==
                     verifyLicenseKey(key, LICENSE_SIGNING_SECRET, now)
             IN ActivateRow(w, MaxRequests, key, hw, dbLicense) =>
                  IF CurrentOf(key) = {} THEN Refused(w, "NOT_FOUND")
                  ELSE IF dbLicense.status = "REVOKED"
                  THEN Refused(w, "REVOKED")
                  ELSE IF dbLicense.status = "EXPIRED"
                          \/ verifyResult.reason = "EXPIRED"
                  THEN Refused(w, "EXPIRED")
                  ELSE IF ~verifyResult.valid
                  THEN Refused(w, verifyResult.reason)
                  ELSE pc'[w] = "a_existing"]_vars

\* an activate request presented the expired token of a REVOKED license
\* and was refused REVOKED
C29_Witness ==
    \E w \in Workers :
        /\ pc[w] = "done"
        /\ resp[w].op = "activate"
        /\ resp[w].reason = "REVOKED"
        /\ verifyLicenseKey(req[w].licenseKey, LICENSE_SIGNING_SECRET,
                            now).reason = "EXPIRED"
        /\ \E id \in CurrentOf(req[w].licenseKey) :
             licenses[id].status = "REVOKED"

\* C30: the hardware check comes before the quota check.  An activate
\* request that has passed the preconditions and whose hardware id holds
\* an Activation row of the license is decided ALREADY_ACTIVATED at the
\* hardware check, also when the license has maxActivations rows or more,
\* and never reaches the count; it is then answered activated = true,
\* ALREADY_ACTIVATED, after one Event and without a new Activation row.
\* Only a request whose hardware id held no row at the hardware check is
\* counted, and only such a request is answered MAX_ACTIVATIONS_REACHED.
C30_ExistingHardwareBeforeQuota ==
    [][\A w \in Workers :
         /\ (pc[w] = "a_existing" /\ pc'[w] # pc[w]) =>
              IF Bound(req[w].dbLicense.id, req[w].hardwareId)
              THEN /\ pc'[w] = "a_event"
                   /\ req'[w].reason = "ALREADY_ACTIVATED"
              ELSE /\ pc'[w] = "a_count"
                   /\ req'[w].reason = "PASS"
         /\ (pc[w] = "a_count" /\ pc'[w] # pc[w]) =>
              /\ req[w].reason = "PASS"
              /\ pc'[w] = "a_event" => req'[w].reason = "MAX_ACTIVATIONS_REACHED"
         /\ (pc[w] = "a_event" /\ pc'[w] # pc[w]) =>
              /\ activations' = activations
              /\ resp'[w].reason = req[w].reason
              /\ resp'[w].ok = (req[w].reason # "MAX_ACTIVATIONS_REACHED")
              /\ AppendsEvent(req[w].dbLicense.id, "VALIDATED", "system")]_vars

\* a hardware id bound to a license whose quota is used up asked again
\* and was answered ALREADY_ACTIVATED
C30_Witness ==
    \E w \in Workers :
        /\ pc[w] = "done"
        /\ resp[w].op = "activate"
        /\ resp[w].ok
        /\ resp[w].reason = "ALREADY_ACTIVATED"
        /\ \E id \in CurrentOf(req[w].licenseKey) :
             /\ Bound(id, req[w].hardwareId)
             /\ ActivationCount(id) >= licenses[id].maxActivations
             /\ events[Len(events)].licenseId = id
             /\ events[Len(events)].message.text
                  = "License re-validated for existing hardware"

(***************************************************************************)
(* C31 .. C40                                                              *)
(***************************************************************************)
\* the verification that was made found the signature valid: the token is
\* as issued and the key is the one it was issued with
SignatureVerified ==
    /\ codec.stage = "verified"
    /\ jwtVerifyError(codec.token, codec.verifyKey) = NoError

\* C31: for a token with a valid signature, verify answers EXPIRED exactly
\* when the payload's expiry is strictly before the verification time, and
\* OK (valid) when the expiry equals or is after the verification time.
C31_ExpiredIffStrictlyBefore ==
    SignatureVerified
      => /\ codec.result.reason = "EXPIRED" <=> codec.token.payload.expiry < codec.at
         /\ codec.token.payload.expiry >= codec.at
              => codec.result.reason = "OK" /\ codec.result.valid
         /\ codec.result.reason \in {"EXPIRED", "OK"}
         /\ codec.result.reason = "EXPIRED" => ~codec.result.valid

\* a token verified at the very instant of its expiry, after the clock
\* has moved, is OK
C31_Witness ==
    /\ SignatureVerified
    /\ codec.at > 0
    /\ codec.token.payload.expiry = codec.at
    /\ codec.result.reason = "OK"
    /\ codec.result.valid

\* C32: an extend request whose new expiry is at or before the current
\* instant is rejected as a validation error (400) and changes nothing:
\* stored status, expiry and token are unchanged, no Event is appended and
\* no token is handed out.
C32_PastExpiryRejected ==
    [][\A w \in Workers :
         \A id \in LicenseIds, newExpiry \in ExtendExpiries,
            reactivate \in BOOLEAN, actor \in Creators :
           (ExtendWith(w, MaxRequests, id, newExpiry, reactivate, actor)
               /\ newExpiry <= now)
             => /\ pc'[w] = "done"
                /\ resp'[w].code = 400
                /\ resp'[w].reason = "Validation failed"
                /\ licenses' = licenses
                /\ events' = events
                /\ issued' = issued]_vars

\* no request is in progress
Quiescent == \A w \in Workers : Idle(w)

\* C33: under any interleaving of validate and extend, in every quiescent
\* state a license whose stored status is EXPIRED has a current token
\* whose expiry is in the past: a license with an unexpired current token
\* is never left EXPIRED.
C33_ExpiredStatusMeansExpiredToken ==
    Quiescent
      => \A id \in LicenseIds :
            licenses[id].status = "EXPIRED"
              => licenses[id].licenseKey.payload.expiry < now

\* a status-change of license id to REVOKED has completed (its Event is
\* written) and no status-change of the license is still in progress
RevokeCompleted(id) ==
    /\ \E i \in 1..Len(events) : StatusChangedTo(events[i], id, "REVOKED")
    /\ ~\E w \in Workers :
          pc[w] \in {"s_update", "s_event"} /\ req[w].id = id

\* C34: once a status-change to REVOKED has completed, the stored status
\* stays REVOKED until an administrative status-change or an extend writes
\* the row: no other step, the lazy EXPIRED write of a validate that read
\* the license before the revoke included, takes the status away from
\* REVOKED.
C34_RevocationNotUndoneByValidate ==
    [][\A id \in LicenseIds :
         (licenses[id].status = "REVOKED" /\ RevokeCompleted(id)
             /\ licenses'[id].status # "REVOKED")
           => \E w \in Workers :
                 /\ pc[w] \in {"s_update", "e_update"}
                 /\ pc'[w] # pc[w]
                 /\ req[w].id = id]_vars

\* C35: no Activation row is created for a license after its revocation
\* has completed: no Activation insert is made, also not by an admit that
\* read ACTIVE before the revoke, while the stored status is REVOKED and
\* the status-change that wrote it has returned.
C35_NoInsertAfterRevoke ==
    [][\A w \in Workers :
         (pc[w] = "a_insert" /\ activations' # activations)
           => \A id \in {req[w].dbLicense.id} :
                 ~(licenses[id].status = "REVOKED" /\ RevokeCompleted(id))]_vars

\* the admissions of license id answered OK so far, as positions in the
\* event log (the OK answer and its Event are one step, and the Event
\* carries the activationNumber of the answer)
AdmissionsOf(id) ==
    {i \in 1..Len(events) :
        ActivatedEvent(events[i]) /\ events[i].licenseId = id}

\* C36: under any interleaving of admit calls on one license, the
\* activationNumber values of the admits answered OK are pairwise distinct,
\* and each equals the number of Activation rows the license has right
\* after that admit's insert.
C36_ActivationNumbersDistinct ==
    [][/\ \A id \in LicenseIds :
            (\A i, j \in AdmissionsOf(id) :
                i # j => events[i].message.n # events[j].message.n)'
       /\ \A w \in Workers :
            (pc[w] = "a_insert" /\ activations' # activations)
              => \A id \in {req[w].dbLicense.id} :
                    ActivationCount(id)' = req[w].currentActivations + 1]_vars

\* C37: a token identifies at most one license: in every reachable state
\* no two distinct License records hold the same current token, also not
\* two licenses issued or extended with identical tenant, modules and
\* expiry, so that the lookup of a license by token finds at most one row.
C37_TokenIdentifiesOneLicense ==
    \A a, b \in LicenseIds :
        licenses[a].licenseKey = licenses[b].licenseKey => a = b

\* C38: the stored status EXPIRED is written only by the lazy transition
\* of validate.  A status-change request with a status other than ACTIVE
\* and REVOKED is rejected (400) with no state change, and the row update
\* of a status-change writes ACTIVE or REVOKED only; a license is issued
\* ACTIVE; the row update of an extend writes ACTIVE or REVOKED; and no
\* other step of any handler, those of activate included, turns a stored
\* status into EXPIRED.
C38_ExpiredOnlyByValidate ==
    [][/\ \A w \in Workers :
            \A id \in 1..MaxLicenses, actor \in Creators,
               status \in licenseStatusEnum \ AdminStatuses :
              StatusWith(w, MaxRequests, id, status, actor)
                => /\ pc'[w] = "done"
                   /\ resp'[w].code = 400
                   /\ licenses' = licenses
                   /\ activations' = activations
                   /\ events' = events
       /\ \A w \in Workers :
            (pc[w] \in {"s_update", "e_update"} /\ pc'[w] # pc[w])
              => licenses'[req[w].id].status \in AdminStatuses
       /\ \A id \in 1..MaxLicenses :
            (id \in (1..Len(licenses')) /\ licenses'[id].status = "EXPIRED")
              => \/ id \in LicenseIds /\ licenses[id].status = "EXPIRED"
                 \/ \E w \in Workers :
                       /\ pc[w] = "v_update"
                       /\ pc'[w] = "v_event"
                       /\ req[w].dbLicense.id = id]_vars

\* a validate has made the stored status of a license EXPIRED, and a
\* status-change request asking for EXPIRED for that license was rejected
C38_Witness ==
    \E w \in Workers :
        /\ pc[w] = "done"
        /\ resp[w].op = "status"
        /\ resp[w].code = 400
        /\ req[w].status = "EXPIRED"
        /\ req[w].id \in LicenseIds
        /\ \E v \in Workers \ {w} :
              /\ pc[v] = "done"
              /\ resp[v].op = "validate"
              /\ resp[v].reason = "EXPIRED"
        /\ licenses[req[w].id].status = "EXPIRED"

\* C39: no sequence of issue, status-change, extend, validate and admit
\* makes an expired token succeed.  With requests served one after
\* another, a validate or activate request presenting a token whose expiry
\* is before now is never answered valid = true or activated = true: the
\* activate returns at once, refused, with no Activation row written, and
\* the validate is decided with a reason other than OK and answered with
\* that decision.  When the token is the current token of the license the
\* lookup finds and the stored status is not REVOKED, the decision is
\* EXPIRED and the stored status is EXPIRED when the validate returns,
\* also for a license an administrator had set back from EXPIRED to
\* ACTIVE without extending it.
C39_ExpiredTokenNeverSucceeds ==
    [][\A w \in SeqWorkers :
         /\ \A key \in {k \in PresentableTokens :
                           k.form = "jwt" /\ k.payload.expiry < now} :
              \A dbLicense \in FirstRow(getLicenseByKey(key)) :
                 /\ ValidateRow(w, MaxSeqRequests, key, dbLicense)
                      => /\ ~resp'[w].ok
                         /\ pc'[w] # "done" => req'[w].reason # "OK"
                         /\ (dbLicense # NoLicense /\ dbLicense.status # "REVOKED")
                              => /\ req'[w].reason = "EXPIRED"
                                 /\ pc'[w] \in {"v_update", "v_event"}
                                 /\ pc'[w] = "v_event"
                                      => licenses[dbLicense.id].status = "EXPIRED"
                 /\ \A hw \in HardwareIds :
                      ActivateRow(w, MaxSeqRequests, key, hw, dbLicense)
                        => /\ pc'[w] = "done"
                           /\ ~resp'[w].ok
                           /\ activations' = activations
         /\ (pc[w] = "v_update" /\ pc'[w] # pc[w])
              => /\ pc'[w] = "v_event"
                 /\ licenses'[req[w].dbLicense.id].status = "EXPIRED"
         /\ (pc[w] = "v_event" /\ pc'[w] # pc[w])
              => /\ pc'[w] = "done"
                 /\ resp'[w].ok <=> req[w].reason = "OK"
                 /\ licenses' = licenses
                 /\ req[w].reason = "EXPIRED"
                      => licenses'[req[w].dbLicense.id].status = "EXPIRED"]_vars

\* a license found EXPIRED by a validate was set back to ACTIVE by a
\* status-change, with its expired token kept, and the validate that
\* followed answered EXPIRED again and left the stored status EXPIRED
C39_Witness ==
    \E w \in SeqWorkers, id \in LicenseIds :
        /\ pc[w] = "done"
        /\ resp[w].op = "validate"
        /\ resp[w].reason = "EXPIRED"
        /\ ~resp[w].ok
        /\ req[w].licenseKey = licenses[id].licenseKey
        /\ licenses[id].licenseKey.payload.expiry < now
        /\ licenses[id].status = "EXPIRED"
        /\ Len(events) > 1
        /\ events[Len(events)].licenseId = id
        /\ events[Len(events)].eventType = "VALIDATED"
        /\ \E e \in {events[Len(events) - 1]} :
              StatusChangedTo(e, id, "ACTIVE") /\ e.message.a = "EXPIRED"

\* the columns of a License row that extend does not write
FixedColumns(license) ==
    [id |-> license.id, tenantId |-> license.tenantId,
     modules |-> license.modules, maxActivations |-> license.maxActivations,
     createdBy |-> license.createdBy]

\* the ways an activate request of hardware id hw presenting key passes
\* the precondition checks and the existing-hardware lookup when the
\* licenses table is table: TRUE when it is ALREADY_ACTIVATED
ReadmitAnswers(table, key, hw) ==
    {/\ ActivatePrecheck(dbLicense,
            verifyLicenseKey(key, LICENSE_SIGNING_SECRET, now)) = "PASS"
     /\ getActivationByHardwareId(dbLicense.id, hw) # {} :
        dbLicense \in FirstRow({l \in Range(table) : l.licenseKey = key})}

\* C40: extend changes only the expiry, token and status of the license
\* it names.  Every step of an extend request leaves the id, tenant,
\* modules and maxActivations of every license, every other License row
\* and every Activation row unchanged; and once no request is in flight,
\* hardware bound to a license is ALREADY_ACTIVATED when it presents the
\* token an extend of that license (to an expiry not yet passed) puts in
\* place, so the quota is not reset.
C40_ExtendKeepsActivations ==
    [][/\ \A w \in SeqWorkers :
            (pc[w] \in {"e_read", "e_update", "e_event"} /\ pc'[w] # pc[w])
              => /\ activations' = activations
                 /\ Len(licenses') = Len(licenses)
                 /\ \A id \in LicenseIds :
                       /\ FixedColumns(licenses'[id]) = FixedColumns(licenses[id])
                       /\ id # req[w].id => licenses'[id] = licenses[id]
       /\ (\A w \in SeqWorkers : Idle(w))'
            => (\A id \in LicenseIds, hw \in HardwareIds :
                 \A newExpiry \in {e \in ExtendExpiries :
                                     ExtendExpiryAccepted(e, now) /\ e >= now} :
                    Bound(id, hw)
                      => ReadmitAnswers(ExtendedAlone(id, newExpiry),
                              ExtendedAlone(id, newExpiry)[id].licenseKey,
                              hw) = {TRUE})']_vars
====
